---- MODULE Spec2Model ----
(***************************************************************************)
(* Routing decision engine of claude-code-router.                          *)
(*                                                                         *)
(* Two copies of the router live in the repository:                        *)
(*   "legacy"  src/src/utils/router.ts             (config object)         *)
(*   "core"    src/packages/core/src/utils/router.ts (ConfigService)       *)
(* The variable `variant` says which copy handles the request.             *)
(*                                                                         *)
(* Strings are sequences of symbols.  A symbol is one character, or one    *)
(* indivisible marker of the protocol ("<env>", "_session_", the subagent  *)
(* tags, "web_search").  The JavaScript value undefined is the value       *)
(* Undefined; the empty string is << >>.                                   *)
(***************************************************************************)
EXTENDS Integers, Sequences, FiniteSets, TLC

\* ------------------------------------------------------------------------
\* JavaScript values and string primitives
\* ------------------------------------------------------------------------

Undefined == <<"(undefined)">>

\* JavaScript truthiness of a string-or-undefined value
Truthy(v) == v # Undefined /\ v # << >>

\* String.prototype.toLowerCase, symbol by symbol
LowerSym(c) ==
  CASE c = "A" -> "a" [] c = "C" -> "c" [] c = "D" -> "d" [] c = "E" -> "e"
    [] c = "H" -> "h" [] c = "I" -> "i" [] c = "K" -> "k" [] c = "L" -> "l"
    [] c = "M" -> "m" [] c = "P" -> "p" [] c = "U" -> "u" [] c = "V" -> "v"
    [] c = "X" -> "x" [] c = "Z" -> "z"
    [] OTHER -> c

toLowerCase(s) == [i \in 1..Len(s) |-> LowerSym(s[i])]

\* s.startsWith(p)
startsWith(s, p) == Len(p) <= Len(s) /\ SubSeq(s, 1, Len(p)) = p

\* positions (1-based) at which sub occurs in s
Occurrences(s, sub) ==
  {i \in 1..(Len(s) - Len(sub) + 1) : SubSeq(s, i, i + Len(sub) - 1) = sub}

\* s.includes(sub)
includes(s, sub) == Occurrences(s, sub) # {}

Min(S) == CHOOSE x \in S : \A y \in S : x <= y

\* s.split(sep) for a non-empty separator: the sequence of parts
RECURSIVE split(_, _)
split(s, sep) ==
  IF ~includes(s, sep) THEN <<s>>
  ELSE LET i == Min(Occurrences(s, sep))
       IN <<SubSeq(s, 1, i - 1)>> \o split(SubSeq(s, i + Len(sep), Len(s)), sep)

\* array[i] of JavaScript, 0-based, undefined past the end
At(arr, i) == IF i + 1 <= Len(arr) THEN arr[i + 1] ELSE Undefined

\* obj.key of JavaScript on an object modelled as a function on its keys
Get(obj, key) == IF key \in DOMAIN obj THEN obj[key] ELSE Undefined

Comma == <<",">>
EnvTag == <<"<env>">>
SessionMarker == <<"_session_">>
OpenTag == <<"<CCR-SUBAGENT-MODEL>">>
CloseTag == <<"</CCR-SUBAGENT-MODEL>">>
WebSearchPrefix == <<"web_search">>
Claude == <<"c", "l", "a", "u", "d", "e">>
Haiku == <<"h", "a", "i", "k", "u">>

\* an absent object (undefined where an object is expected)
UndefinedObj == [undefined |-> TRUE]

\* an absent array of objects (undefined where an array is expected)
UndefinedArr == <<UndefinedObj>>
IsDefined(o) == "undefined" \notin DOMAIN o

\* a cached "looked up, no project" entry: null (legacy) or '' (core)
NotFound == ""

DefaultLongContextThreshold == 60000
LastUsageMinTokens == 20000

VARIABLES
  variant,             \* which copy of router.ts serves the request
  config,              \* the parsed configuration object
  fs,                  \* the file system: projects directory, config files, prompt file
  plugin,              \* behaviour of the module behind CUSTOM_ROUTER_PATH
  enc,                 \* outcome of calculateTokenCount on the request body
  sessionProjectCache, \* LRU sessionId -> project name | NotFound
  sessionUsageCache,   \* sessionId -> last usage
  req0,                \* the request as it was received
  req,                 \* the request object being routed (mutated in place)
  lastMessageUsage,    \* local of router()
  pc,                  \* position of router(): start, route, done, threw
  rule,                \* return site of the routing decision
  usedRouter,          \* the local `Router` of getUseModel
  scans,               \* number of scans of the projects directory
  calls                \* the calls of searchProjectBySession made so far, in order

\* the onSend hook on the response of one request
VARIABLES
  served,              \* the request being answered: sessionId, agents, tools, stage
  payload,             \* the events of the response stream handed to onSend
  source,              \* the response stream: flowing, ended, or the error it failed with
  mode,                \* what onSend returned: hook (not called yet), rewrite, tee, plain
  pos,                 \* events of the payload the rewriter has read
  spc,                 \* position of the rewrite callback: idle, fetching, reading, done, errored
  client,              \* the consumer of the returned stream: open, closed
  emitted,             \* what was enqueued to the stream handed to the client
  currentAgent,        \* locals of the onSend closure
  currentToolIndex,
  currentToolName,
  currentToolArgs,
  currentToolId,
  toolMessages,
  assistantMessages,
  messages,            \* what the hook pushed to req.body.messages
  toolCalls,           \* JSON5.parse and handler invocations so far, with their outcome
  aborted,             \* abortController.signal.aborted
  nested,              \* the nested upstream call: state, events left to read, body sent, error raised
  clientPos,           \* chunks of the returned stream the client has taken
  reader,              \* the background usage reader: off, reading, ended, failed, rejected
  readerPos            \* chunks of clonedStream the usage reader has read

closureVars == <<currentAgent, currentToolIndex, currentToolName, currentToolArgs,
                 currentToolId, toolMessages, assistantMessages>>

teeVars == <<clientPos, reader, readerPos>>

streamVars == <<served, payload, source, mode, pos, spc, client, emitted, closureVars,
                messages, toolCalls, aborted, nested, teeVars>>

routerVars == <<variant, config, fs, plugin, enc, sessionProjectCache,
                sessionUsageCache, req0, req, lastMessageUsage, pc, rule,
                usedRouter, scans>>

vars == <<routerVars, calls, streamVars>>

\* no response is being streamed
NoStream ==
  /\ served = [sessionId |-> Undefined, agents |-> << >>, tools |-> << >>,
               stage |-> "none"]
  /\ payload = << >>
  /\ source = "ended"
  /\ mode = "hook"
  /\ pos = 0
  /\ spc = "idle"
  /\ client = "open"
  /\ emitted = << >>
  /\ currentAgent = ""
  /\ currentToolIndex = -1
  /\ currentToolName = ""
  /\ currentToolArgs = << >>
  /\ currentToolId = ""
  /\ toolMessages = << >>
  /\ assistantMessages = << >>
  /\ messages = << >>
  /\ toolCalls = << >>
  /\ aborted = FALSE
  /\ nested = [state |-> "none", events |-> << >>, body |-> [messages |-> << >>, tools |-> << >>],
              error |-> ""]
  /\ clientPos = 0
  /\ reader = "off"
  /\ readerPos = 0

\* ------------------------------------------------------------------------
\* Project lookup and project-specific Router
\* ------------------------------------------------------------------------

FileAt(fsys, path) ==
  IF path \in DOMAIN fsys.files THEN fsys.files[path] ELSE [kind |-> "missing"]

\* readConfigFile / JSON.parse(await readFile(...)) in try-catch:
\* the parsed object, or no value when the file is missing or malformed
readConfigFile(fsys, path) ==
  LET f == FileAt(fsys, path)
  IN IF f.kind = "json" THEN [ok |-> TRUE, json |-> f.json]
     ELSE [ok |-> FALSE, json |-> UndefinedObj]

\* a slip: the file name is not built from the session id of the call
ScanProjects_anySession(fsys, sessionId) ==
  LET hits == SelectSeq(fsys.folders, LAMBDA f : \E l \in fsys.logs : l[1] = f)
  IN IF hits = << >> THEN NotFound ELSE hits[1]

\* the directory scan of searchProjectBySession: first folder, in directory
\* order, that holds <sessionId>.jsonl
ScanProjects(fsys, sessionId) ==
  LET hits == SelectSeq(fsys.folders, LAMBDA f : <<f, sessionId>> \in fsys.logs)
  IN IF hits = << >> THEN NotFound ELSE hits[1]

CachePut(cache, k, v) == [x \in (DOMAIN cache) \cup {k} |-> IF x = k THEN v ELSE cache[x]]

\* a slip: an entry that says not-found is not taken as a hit
searchProjectBySession_negativeRescans(fsys, cache, sessionId) ==
  IF sessionId \in DOMAIN cache /\ cache[sessionId] # NotFound
  THEN [result |-> cache[sessionId], cache |-> cache, scans |-> 0]
  ELSE IF fsys.scanFails
       THEN [result |-> NotFound, cache |-> CachePut(cache, sessionId, NotFound), scans |-> 1]
       ELSE LET r == ScanProjects(fsys, sessionId)
            IN [result |-> r, cache |-> CachePut(cache, sessionId, r), scans |-> 1]

\* a slip: a failed scan leaves no entry in the cache
searchProjectBySession_errorUncached(fsys, cache, sessionId) ==
  IF sessionId \in DOMAIN cache
  THEN [result |-> cache[sessionId], cache |-> cache, scans |-> 0]
  ELSE IF fsys.scanFails
       THEN [result |-> NotFound, cache |-> cache, scans |-> 1]
       ELSE LET r == ScanProjects(fsys, sessionId)
            IN [result |-> r, cache |-> CachePut(cache, sessionId, r), scans |-> 1]

\* searchProjectBySession: the cached entry if there is one, else one scan of
\* the projects directory whose outcome (also its failure) is cached
searchProjectBySession(fsys, cache, sessionId) ==
  IF sessionId \in DOMAIN cache
  THEN [result |-> cache[sessionId], cache |-> cache, scans |-> 0]
  ELSE IF fsys.scanFails
       THEN [result |-> NotFound, cache |-> CachePut(cache, sessionId, NotFound), scans |-> 1]
       ELSE LET r == ScanProjects(fsys, sessionId)
            IN [result |-> r, cache |-> CachePut(cache, sessionId, r), scans |-> 1]

getProjectSpecificRouter(fsys, cache, r) ==
  IF ~Truthy(r.sessionId)
  THEN [router |-> UndefinedObj, cache |-> cache, scans |-> 0]
  ELSE
    LET s == searchProjectBySession(fsys, cache, r.sessionId)
        project == s.result
        projectConfigPath == <<project, "config.json">>
        sessionConfigPath == <<project>> \o r.sessionId \o <<".json">>
        sessionConfig == readConfigFile(fsys, sessionConfigPath)
        projectConfig == readConfigFile(fsys, projectConfigPath)
        out(R) == [router |-> R, cache |-> s.cache, scans |-> s.scans]
    IN IF project = NotFound THEN out(UndefinedObj)
       ELSE IF sessionConfig.ok /\ "Router" \in DOMAIN sessionConfig.json
            THEN out(sessionConfig.json.Router)
       ELSE IF projectConfig.ok /\ "Router" \in DOMAIN projectConfig.json
            THEN out(projectConfig.json.Router)
       ELSE out(UndefinedObj)

\* ------------------------------------------------------------------------
\* getUseModel: the built-in rules
\* ------------------------------------------------------------------------

\* Array.prototype.find, given the elements that satisfy the predicate in
\* array order: the first of them, or `none`
FirstOr(hits, none) == IF hits = << >> THEN none ELSE hits[1]

\* String.prototype.replace(pattern string, replacement): first occurrence only
replaceFirst(s, pat, rep) ==
  IF ~includes(s, pat) THEN s
  ELSE LET i == Min(Occurrences(s, pat))
       IN SubSeq(s, 1, i - 1) \o rep \o SubSeq(s, i + Len(pat), Len(s))

\* a slip: a greedy capture group, up to the last closing tag
matchSubagent_greedy(text) ==
  LET opens == Occurrences(text, OpenTag)
      closes == {c \in Occurrences(text, CloseTag) : opens # {} /\ c > Min(opens)}
  IN IF closes = {} THEN [matched |-> FALSE, group |-> Undefined]
     ELSE [matched |-> TRUE,
           group |-> SubSeq(text, Min(opens) + 1,
                            (CHOOSE c \in closes : \A d \in closes : d <= c) - 1)]

\* text.match(/<CCR-SUBAGENT-MODEL>(.*?)<\/CCR-SUBAGENT-MODEL>/s):
\* the lazy capture group after the first opening tag, or no match
matchSubagent(text) ==
  LET opens == Occurrences(text, OpenTag)
      closes == {c \in Occurrences(text, CloseTag) : opens # {} /\ c > Min(opens)}
  IN IF closes = {} THEN [matched |-> FALSE, group |-> Undefined]
     ELSE [matched |-> TRUE, group |-> SubSeq(text, Min(opens) + 1, Min(closes) - 1)]

\* Router.longContextThreshold || 60000
longContextThresholdOf(Router) ==
  IF "longContextThreshold" \in DOMAIN Router /\ Router.longContextThreshold # 0
  THEN Router.longContextThreshold
  ELSE DefaultLongContextThreshold

\* req.body.system.length > 1 && req.body.system[1]?.text?.startsWith(tag)
HasSubagentTag(body) ==
  /\ body.system # UndefinedArr
  /\ Len(body.system) > 1
  /\ body.system[2].text # Undefined
  /\ startsWith(body.system[2].text, OpenTag)

\* Array.isArray(tools) && tools.some(tool => tool.type?.startsWith("web_search"))
HasWebSearchTool(body) ==
  /\ body.tools # UndefinedArr
  /\ \E i \in 1..Len(body.tools) :
       /\ body.tools[i].type # Undefined
       /\ startsWith(body.tools[i].type, WebSearchPrefix)

\* req.body.model?.includes("claude") && req.body.model?.includes("haiku")
IsClaudeHaiku(model) == includes(model, Claude) /\ includes(model, Haiku)

GlobalRouter(cfg) == IF "Router" \in DOMAIN cfg THEN cfg.Router ELSE UndefinedObj

\* a slip: the project Router merged key by key over the global Router
effectiveRouter_merged(projectSpecificRouter, cfg) ==
  IF IsDefined(projectSpecificRouter) /\ IsDefined(GlobalRouter(cfg))
  THEN projectSpecificRouter @@ GlobalRouter(cfg)
  ELSE IF IsDefined(projectSpecificRouter) THEN projectSpecificRouter
  ELSE GlobalRouter(cfg)

\* const Router = projectSpecificRouter || config.Router
effectiveRouter(projectSpecificRouter, cfg) ==
  IF IsDefined(projectSpecificRouter) THEN projectSpecificRouter ELSE GlobalRouter(cfg)

\* a slip: a lookup miss falls through to the default model
explicitModel_fallthrough(cfg, modelString) ==
  LET parts == split(modelString, Comma)
      provider == At(parts, 0)
      model == At(parts, 1)
      finalProvider == FirstOr(SelectSeq(cfg.Providers,
                                         LAMBDA p : toLowerCase(p.name) = provider),
                               UndefinedObj)
      finalModel == IF IsDefined(finalProvider)
                    THEN FirstOr(SelectSeq(finalProvider.models,
                                           LAMBDA m : toLowerCase(m) = model),
                                 Undefined)
                    ELSE Undefined
  IN IF IsDefined(finalProvider) /\ finalModel # Undefined
     THEN [value |-> finalProvider.name \o Comma \o finalModel, rule |-> "explicit"]
     ELSE [value |-> Get(GlobalRouter(cfg), "default"), rule |-> "default"]

\* the explicit "provider,model" branch: the canonical pair when both are
\* found, else the model string as it came
explicitModel(cfg, modelString) ==
  LET parts == split(modelString, Comma)
      provider == At(parts, 0)
      model == At(parts, 1)
      finalProvider == FirstOr(SelectSeq(cfg.Providers,
                                         LAMBDA p : toLowerCase(p.name) = provider),
                               UndefinedObj)
      finalModel == IF IsDefined(finalProvider)
                    THEN FirstOr(SelectSeq(finalProvider.models,
                                           LAMBDA m : toLowerCase(m) = model),
                                 Undefined)
                    ELSE Undefined
  IN IF IsDefined(finalProvider) /\ finalModel # Undefined
     THEN [value |-> finalProvider.name \o Comma \o finalModel, rule |-> "explicit"]
     ELSE [value |-> modelString, rule |-> "explicit-miss"]

\* a slip: >= in place of > in both threshold comparisons
longContextApplies_inclusive(Router, tokenCount, lastUsage) ==
  LET longContextThreshold == longContextThresholdOf(Router)
      lastUsageThreshold ==
        /\ IsDefined(lastUsage)
        /\ lastUsage.input_tokens >= longContextThreshold
        /\ tokenCount > LastUsageMinTokens
      tokenCountThreshold == tokenCount >= longContextThreshold
  IN (lastUsageThreshold \/ tokenCountThreshold) /\ Truthy(Get(Router, "longContext"))

\* (lastUsageThreshold || tokenCountThreshold) && Router.longContext
longContextApplies(Router, tokenCount, lastUsage) ==
  LET longContextThreshold == longContextThresholdOf(Router)
      lastUsageThreshold ==
        /\ IsDefined(lastUsage)
        /\ lastUsage.input_tokens > longContextThreshold
        /\ tokenCount > LastUsageMinTokens
      tokenCountThreshold == tokenCount > longContextThreshold
  IN (lastUsageThreshold \/ tokenCountThreshold) /\ Truthy(Get(Router, "longContext"))

\* a slip: the background model read from the Router in effect
backgroundModel_effective(cfg, Router) == Get(Router, "background")

\* the model the background rule returns
backgroundModel(cfg, Router) == Get(GlobalRouter(cfg), "background")

\* a slip: the fallback read from the global Router
fallbackModel_global(cfg, Router) == Get(GlobalRouter(cfg), "default")

\* the last return of getUseModel
fallbackModel(cfg, Router) == Get(Router, "default")

\* a slip: thinking checked before web search
scenarioRules_thinkFirst(cfg, Router, body) ==
  IF Truthy(body.thinking) /\ Truthy(Get(Router, "think"))
    THEN [value |-> Router.think, rule |-> "think"]
  ELSE IF HasWebSearchTool(body) /\ Truthy(Get(Router, "webSearch"))
    THEN [value |-> Router.webSearch, rule |-> "webSearch"]
  ELSE [value |-> fallbackModel(cfg, Router), rule |-> "default"]

\* web search, then thinking, then the default
scenarioRules(cfg, Router, body) ==
  IF HasWebSearchTool(body) /\ Truthy(Get(Router, "webSearch"))
    THEN [value |-> Router.webSearch, rule |-> "webSearch"]
  ELSE IF Truthy(body.thinking) /\ Truthy(Get(Router, "think"))
    THEN [value |-> Router.think, rule |-> "think"]
  ELSE [value |-> fallbackModel(cfg, Router), rule |-> "default"]

\* a slip: the web-search rule placed before the background rule
lateRules_webFirst(v, cfg, Router, body) ==
  IF HasWebSearchTool(body) /\ Truthy(Get(Router, "webSearch"))
    THEN [value |-> Router.webSearch, rule |-> "webSearch"]
  ELSE IF IsClaudeHaiku(body.model) /\ v = "legacy" /\ ~IsDefined(GlobalRouter(cfg))
    THEN [value |-> Undefined, rule |-> "throw"]
  ELSE IF IsClaudeHaiku(body.model) /\ Truthy(backgroundModel(cfg, Router))
    THEN [value |-> backgroundModel(cfg, Router), rule |-> "background"]
  ELSE scenarioRules(cfg, Router, body)

\* the background rule and the rules after it; reading config.Router.background
\* of a missing Router section throws in the legacy copy
lateRules(v, cfg, Router, body) ==
  IF IsClaudeHaiku(body.model) /\ v = "legacy" /\ ~IsDefined(GlobalRouter(cfg))
    THEN [value |-> Undefined, rule |-> "throw"]
  ELSE IF IsClaudeHaiku(body.model) /\ Truthy(backgroundModel(cfg, Router))
    THEN [value |-> backgroundModel(cfg, Router), rule |-> "background"]
  ELSE scenarioRules(cfg, Router, body)

\* The result of getUseModel: either it throws, or it returns `value` from
\* the return site `rule`, leaving the system prompt, the project cache and
\* the scan count as recorded.
getUseModel(v, cfg, fsys, cache, r, tokenCount, lastUsage) ==
  LET psr == getProjectSpecificRouter(fsys, cache, r)
      Router == effectiveRouter(psr.router, cfg)
      body == r.body
      out(res, sys) ==
        [threw |-> res.rule = "throw", value |-> res.value, rule |-> res.rule,
         system |-> sys, cache |-> psr.cache, scans |-> psr.scans, Router |-> Router]
      throw == [value |-> Undefined, rule |-> "throw"]
      m == matchSubagent(body.system[2].text)
      stripped == [body.system EXCEPT ![2].text =
                     replaceFirst(@, OpenTag \o m.group \o CloseTag, << >>)]
  IN
  IF body.model = Undefined THEN out(throw, body.system)
  ELSE IF includes(body.model, Comma)
    THEN out(explicitModel(cfg, body.model), body.system)
  ELSE IF v = "legacy" /\ ~IsDefined(Router) THEN out(throw, body.system)
  ELSE IF longContextApplies(Router, tokenCount, lastUsage)
    THEN out([value |-> Router.longContext, rule |-> "longContext"], body.system)
  ELSE IF HasSubagentTag(body) /\ m.matched
    THEN out([value |-> m.group, rule |-> "subagent"], stripped)
  ELSE out(lateRules(v, cfg, Router, body), body.system)

\* ------------------------------------------------------------------------
\* router(): the preHandler entry point
\* ------------------------------------------------------------------------

\* req.sessionId after the parse of metadata.user_id
parseSessionId(r) ==
  LET uid == r.body.user_id
      parts == split(uid, SessionMarker)
  IN IF Truthy(uid) /\ Len(parts) > 1 THEN parts[2] ELSE r.sessionId

\* sessionUsageCache.get(key)
usageGet(cache, key) == IF key \in DOMAIN cache THEN cache[key] ELSE UndefinedObj

\* config.REWRITE_SYSTEM_PROMPT && system.length > 1 && system[1]?.text?.includes("<env>")
NeedsRewrite(cfg, body) ==
  /\ Truthy(Get(cfg, "REWRITE_SYSTEM_PROMPT"))
  /\ body.system # UndefinedArr
  /\ Len(body.system) > 1
  /\ body.system[2].text # Undefined
  /\ includes(body.system[2].text, EnvTag)

\* `${prompt}<env>${system[1].text.split("<env>").pop()}`
rewriteSystem(system, prompt) ==
  LET parts == split(system[2].text, EnvTag)
  IN [system EXCEPT ![2].text = prompt \o EnvTag \o parts[Len(parts)]]

\* router(), from its entry to the try block: session id, last usage and the
\* system prompt rewrite, whose readFile is outside the try block
RouterEntry ==
  /\ pc = "start"
  /\ LET sid == parseSessionId(req)
         file == FileAt(fs, config.REWRITE_SYSTEM_PROMPT)
     IN /\ lastMessageUsage' = usageGet(sessionUsageCache, sid)
        /\ IF ~NeedsRewrite(config, req.body)
           THEN /\ req' = [req EXCEPT !.sessionId = sid]
                /\ pc' = "route"
                /\ rule' = rule
           ELSE IF file.kind = "text"
           THEN /\ req' = [req EXCEPT !.sessionId = sid,
                                      !.body.system = rewriteSystem(@, file.text)]
                /\ pc' = "route"
                /\ rule' = rule
           ELSE /\ req' = [req EXCEPT !.sessionId = sid]
                /\ pc' = "threw"
                /\ rule' = "rewrite-throw"
  /\ UNCHANGED <<variant, config, fs, plugin, enc, sessionProjectCache,
                 sessionUsageCache, req0, usedRouter, scans, calls>>
  /\ UNCHANGED streamVars

\* what `model` holds after the custom router block
customRouterModel(cfg, plg) ==
  IF Truthy(Get(cfg, "CUSTOM_ROUTER_PATH")) /\ plg.kind = "returns"
  THEN plg.value
  ELSE Undefined

\* a slip: only an undefined custom result falls through
customDecides_defined(model) == model # Undefined

\* if (!model) model = await getUseModel(...): the custom result stands
customDecides(model) == Truthy(model)

\* the catch block of router(): config.Router!.default (legacy) or
\* Router?.default (core)
CatchBlock(v, cfg, r) ==
  IF v = "legacy" /\ ~IsDefined(GlobalRouter(cfg))
  THEN [threw |-> TRUE, req |-> r]
  ELSE [threw |-> FALSE,
        req |-> [r EXCEPT !.body.model = Get(GlobalRouter(cfg), "default")]]

\* router(), the try block and its catch
RouterRoute ==
  /\ pc = "route"
  /\ LET customRan == Truthy(Get(config, "CUSTOM_ROUTER_PATH")) /\ plugin.kind # "loadfail"
         r1 == IF customRan THEN [req EXCEPT !.tokenCount = enc.count] ELSE req
         model == customRouterModel(config, plugin)
         g == getUseModel(variant, config, fs, sessionProjectCache, r1,
                          enc.count, lastMessageUsage)
         c == CatchBlock(variant, config, IF enc.fails THEN req ELSE r1)
         caught == /\ req' = c.req
                   /\ pc' = IF c.threw THEN "threw" ELSE "done"
                   /\ rule' = IF c.threw THEN "catch-throw" ELSE "catch"
     IN IF enc.fails
        THEN /\ caught
             /\ UNCHANGED <<sessionProjectCache, usedRouter, scans>>
        ELSE IF customDecides(model)
        THEN /\ req' = [r1 EXCEPT !.body.model = model]
             /\ pc' = "done"
             /\ rule' = "custom"
             /\ UNCHANGED <<sessionProjectCache, usedRouter, scans>>
        ELSE /\ sessionProjectCache' = g.cache
             /\ scans' = scans + g.scans
             /\ usedRouter' = g.Router
             /\ IF g.threw
                THEN caught
                ELSE /\ req' = [r1 EXCEPT !.body.model = g.value,
                                          !.body.system = g.system]
                     /\ pc' = "done"
                     /\ rule' = g.rule
  /\ UNCHANGED <<variant, config, fs, plugin, enc, sessionUsageCache, req0,
                 lastMessageUsage, calls>>
  /\ UNCHANGED streamVars

Next == RouterEntry \/ RouterRoute

\* ------------------------------------------------------------------------
\* Configurations, file systems and requests the router is run on
\* ------------------------------------------------------------------------

\* the longContextThreshold configured in the sampled Router sections
SampleThreshold == 1000

RuleKeys == {"default", "background", "think", "longContext", "webSearch"}

\* the "provider,model" string a Router section of origin o (g: global,
\* p: project config.json, s: session config) holds under key k
Val(o, k) == <<o, ",", k>>

\* a Router section holding the keys K, with longContextThreshold t (t < 0: absent)
MkRouter(o, K, t) ==
  [k \in K |-> Val(o, k)] @@
  (IF t >= 0 THEN ("longContextThreshold" :> t) ELSE << >>)

FullRouter(o) == MkRouter(o, RuleKeys, -1)

\* every Router section over the rule keys; a threshold only beside longContext
RouterShapes(o) ==
  {MkRouter(o, K, t) : K \in SUBSET RuleKeys, t \in {-1}} \cup
  {MkRouter(o, K \cup {"longContext"}, t) : K \in SUBSET RuleKeys, t \in {0, SampleThreshold}}

Pv == <<"P", "v">>
Md == <<"M", "d">>
Providers ==
  << [name |-> Pv, models |-> <<Md>>],
     [name |-> <<"z">>, models |-> << <<"x">> >>] >>

PromptPath == <<"prompt.md">>
RouterPath == <<"router.js">>

MkConfig(Rt, custom, rewrite) ==
  [Providers |-> Providers] @@
  (IF IsDefined(Rt) THEN ("Router" :> Rt) ELSE << >>) @@
  (IF custom THEN ("CUSTOM_ROUTER_PATH" :> RouterPath) ELSE << >>) @@
  (IF rewrite THEN ("REWRITE_SYSTEM_PROMPT" :> PromptPath) ELSE << >>)

S1 == <<"s", "1">>
S2 == <<"s", "2">>
ProjA == "projA"

Missing == [kind |-> "missing"]
Malformed == [kind |-> "malformed"]
JsonNull == [kind |-> "null"]
Json(j) == [kind |-> "json", json |-> j]
WithRouter(R) == Json([Router |-> R])
NoRouterSection == Json([PORT |-> 3456])
PromptText == [kind |-> "text", text |-> <<"p", "r">>]

\* a file system: the projects directory holds <S1>.jsonl in ProjA iff bound;
\* opendir fails iff scanFails; the session and project config files of ProjA
MkFs(bound, scanFails, sessionFile, projectFile, promptFile) ==
  [folders |-> <<"other", ProjA>>,
   logs |-> IF bound THEN {<<ProjA, S1>>} ELSE {},
   scanFails |-> scanFails,
   files |-> (<<ProjA>> \o S1 \o <<".json">> :> sessionFile) @@
             (<<ProjA, "config.json">> :> projectFile) @@
             (PromptPath :> promptFile)]

PlainFs == MkFs(FALSE, FALSE, Missing, Missing, Missing)

\* model strings of requests
ModelPlain == <<"s", "o", "n">>
ModelHaiku == Claude \o <<"-">> \o Haiku
ModelClaude == Claude \o <<"-">> \o <<"o">>
ModelLower == <<"p", "v", ",", "m", "d">>
ModelExact == Pv \o Comma \o Md
ModelUpper == <<"P", "V", ",", "m", "d">>
ModelUpperM == <<"p", "v", ",", "M", "D">>
ModelMissP == <<"q", ",", "m", "d">>
ModelMissM == <<"p", "v", ",">> \o ModelHaiku
ModelThree == <<"p", "v", ",", "m", "d", ",", "x">>

\* system prompts
SubModel == <<"s", "u", "b", ",", "m">>
Blk(t) == [type |-> "text", text |-> t]
SysPlain == <<Blk(<<"a">>), Blk(<<"t">>)>>
SysTag == <<Blk(<<"a">>), Blk(OpenTag \o SubModel \o CloseTag \o <<"t">>)>>
SysUnclosed == <<Blk(<<"a">>), Blk(OpenTag \o SubModel \o <<"t">>)>>
SysOne == <<Blk(OpenTag \o SubModel \o CloseTag)>>
SysEnv == <<Blk(<<"a">>), Blk(<<"t">> \o EnvTag \o <<"e">>)>>
SysTagEnv == <<Blk(<<"a">>), Blk(OpenTag \o SubModel \o CloseTag \o EnvTag \o <<"e">>)>>
SysTwoTags ==
  <<Blk(<<"a">>),
    Blk(OpenTag \o SubModel \o CloseTag \o <<"t">> \o OpenTag \o <<"x">> \o CloseTag \o <<"u">>)>>
SysEmptyTag == <<Blk(<<"a">>), Blk(OpenTag \o CloseTag \o <<"t">>)>>
SysUnclosedTwo == <<Blk(<<"a">>), Blk(OpenTag \o SubModel \o OpenTag \o <<"t">>)>>

WebTools == << [name |-> "search", type |-> WebSearchPrefix \o <<"_2025">>] >>
PlainTools == << [name |-> "bash", type |-> Undefined],
                 [name |-> "w", type |-> <<"x">> \o WebSearchPrefix] >>
Thinking == <<"enabled">>

UserS1 == <<"u">> \o SessionMarker \o S1
UserS2 == <<"u">> \o SessionMarker \o S2
UserNoSession == <<"u">>
UserEmptySession == <<"u">> \o SessionMarker

MkReq(model, system, tools, thinking, uid) ==
  [body |-> [model |-> model, system |-> system, tools |-> tools,
             thinking |-> thinking, user_id |-> uid],
   sessionId |-> Undefined,
   tokenCount |-> -1]

Usage(n) == [input_tokens |-> n, output_tokens |-> 20]

\* token estimates around the sampled, the last-usage and the default thresholds
TokenSamples ==
  {SampleThreshold - 1, SampleThreshold, SampleThreshold + 1,
   LastUsageMinTokens, LastUsageMinTokens + 1,
   DefaultLongContextThreshold, DefaultLongContextThreshold + 1}

\* the state at the entry of router() for one configuration and one request
StartRouter(v, cfg, fsys, plg, e, pcache, ucache, r) ==
  /\ variant = v
  /\ config = cfg
  /\ fs = fsys
  /\ plugin = plg
  /\ enc = e
  /\ sessionProjectCache = pcache
  /\ sessionUsageCache = ucache
  /\ req0 = r
  /\ req = r
  /\ lastMessageUsage = UndefinedObj
  /\ pc = "start"
  /\ rule = "none"
  /\ usedRouter = UndefinedObj
  /\ scans = 0

Start(v, cfg, fsys, plg, e, pcache, ucache, r) ==
  /\ StartRouter(v, cfg, fsys, plg, e, pcache, ucache, r)
  /\ calls = << >>
  /\ NoStream

NoPlugin == [kind |-> "loadfail", value |-> Undefined]
Counted(n) == [count |-> n, fails |-> FALSE]
EmptyCache == << >>

Variants == {"legacy", "core"}

\* (token estimate, cached last usage of the session) pairs
TokenUsagePairs ==
  {<<n, UndefinedObj>> : n \in TokenSamples} \cup
  {<<n, Usage(u)>> : n \in {SampleThreshold - 1, LastUsageMinTokens, LastUsageMinTokens + 1},
                     u \in {DefaultLongContextThreshold, DefaultLongContextThreshold + 1}}

UsageCacheOf(u) == IF IsDefined(u) THEN (S1 :> u) ELSE EmptyCache

RuleRequests ==
  {MkReq(m, sys, tools, th, UserS1) :
     m \in {ModelPlain, ModelHaiku},
     sys \in {UndefinedArr, SysTag, SysUnclosed},
     tools \in {UndefinedArr, WebTools},
     th \in {Undefined, Thinking}}

\* the rules on the global Router: every Router section, no project override
InitRules ==
  \E v \in Variants, R \in RouterShapes("g") \cup {UndefinedObj},
     tu \in TokenUsagePairs, r \in RuleRequests :
    Start(v, MkConfig(R, FALSE, FALSE), PlainFs, NoPlugin, Counted(tu[1]),
          EmptyCache, UsageCacheOf(tu[2]), r)

\* the rules on a project Router: every Router section in ProjA/config.json
InitProjectRules ==
  \E v \in Variants, R \in RouterShapes("p"),
     n \in {SampleThreshold, SampleThreshold + 1, LastUsageMinTokens + 1},
     u \in {UndefinedObj, Usage(DefaultLongContextThreshold + 1)},
     r \in RuleRequests :
    Start(v, MkConfig(FullRouter("g"), FALSE, FALSE),
          MkFs(TRUE, FALSE, Malformed, WithRouter(R), Missing), NoPlugin,
          Counted(n), EmptyCache, UsageCacheOf(u), r)

\* resolution of the Router in effect: directory, cache and config files
SessionFiles ==
  {Missing, Malformed, JsonNull, NoRouterSection,
   WithRouter(FullRouter("s")), WithRouter(MkRouter("s", {"think"}, -1))}

ProjectFiles ==
  {Missing, Malformed, NoRouterSection,
   WithRouter(MkRouter("p", {"default", "background"}, -1))}

\* (session log present, opendir fails, project cache)
Lookups ==
  {<<TRUE, FALSE, EmptyCache>>, <<FALSE, FALSE, EmptyCache>>,
   <<TRUE, TRUE, EmptyCache>>, <<FALSE, FALSE, (S1 :> ProjA)>>,
   <<TRUE, FALSE, (S1 :> NotFound)>>}

ResolveRequests ==
  {MkReq(m, UndefinedArr, tt[1], tt[2], uid) :
     m \in {ModelPlain, ModelHaiku},
     tt \in {<<UndefinedArr, Undefined>>, <<WebTools, Thinking>>, <<PlainTools, Thinking>>},
     uid \in {Undefined, UserNoSession, UserEmptySession, UserS1, UserS2}}

InitResolve ==
  \E v \in Variants,
     R \in {FullRouter("g"), MkRouter("g", {"default"}, -1), UndefinedObj},
     l \in Lookups, sf \in SessionFiles, pf \in ProjectFiles,
     n \in {SampleThreshold - 1},
     r \in ResolveRequests :
    Start(v, MkConfig(R, FALSE, FALSE), MkFs(l[1], l[2], sf, pf, Missing),
          NoPlugin, Counted(n), l[3], EmptyCache, r)

\* failures and the custom router
Plugins ==
  {[kind |-> "loadfail", value |-> Undefined],
   [kind |-> "throws", value |-> Undefined],
   [kind |-> "returns", value |-> Undefined],
   [kind |-> "returns", value |-> << >>],
   [kind |-> "returns", value |-> <<"c", ",", "m">>]}

FailureRequests ==
  {MkReq(m, sys, UndefinedArr, Thinking, uid) :
     m \in {ModelPlain, ModelHaiku, ModelLower, Undefined},
     sys \in {UndefinedArr, SysTag, SysEnv, SysTagEnv},
     uid \in {Undefined, UserS1}}

InitFailures ==
  \E v \in Variants,
     R \in {FullRouter("g"), MkRouter("g", {"default"}, -1), UndefinedObj},
     custom \in BOOLEAN, plg \in Plugins,
     rewrite \in BOOLEAN, prompt \in {Missing, PromptText},
     fails \in BOOLEAN, scanFails \in BOOLEAN,
     r \in FailureRequests :
    /\ (~custom => plg = NoPlugin)
    /\ (~rewrite => prompt = Missing)
    /\ Start(v, MkConfig(R, custom, rewrite),
             MkFs(TRUE, scanFails, Missing, WithRouter(FullRouter("p")), prompt),
             plg, [count |-> SampleThreshold - 1, fails |-> fails],
             EmptyCache, EmptyCache, r)

\* explicit provider,model requests
ExplicitRequests ==
  {MkReq(m, sys, tt[1], tt[2], UserS1) :
     m \in {ModelLower, ModelExact, ModelUpper, ModelUpperM, ModelMissP,
            ModelMissM, ModelThree, ModelClaude},
     sys \in {UndefinedArr, SysTag, SysOne, SysPlain},
     tt \in {<<UndefinedArr, Undefined>>, <<WebTools, Thinking>>}}

InitExplicit ==
  \E v \in Variants, bound \in BOOLEAN,
     n \in {SampleThreshold - 1, DefaultLongContextThreshold + 1},
     r \in ExplicitRequests :
    Start(v, MkConfig(FullRouter("g"), FALSE, FALSE),
          MkFs(bound, FALSE, Missing, WithRouter(FullRouter("p")), Missing),
          NoPlugin, Counted(n), EmptyCache, EmptyCache, r)

\* requests whose second system block starts with the subagent tag
SubagentRequests ==
  {MkReq(m, sys, tools, th, UserS1) :
     m \in {ModelPlain, ModelHaiku},
     sys \in {SysTwoTags, SysEmptyTag, SysUnclosedTwo},
     tools \in {UndefinedArr, WebTools},
     th \in {Undefined, Thinking}}

InitSubagent ==
  \E v \in Variants,
     R \in {FullRouter("g"), MkRouter("g", {"default"}, -1),
            MkRouter("g", {"default", "think"}, -1)},
     r \in SubagentRequests :
    Start(v, MkConfig(R, FALSE, FALSE), PlainFs, NoPlugin,
          Counted(SampleThreshold - 1), EmptyCache, EmptyCache, r)

Init ==
  \/ InitSubagent
  \/ InitRules
  \/ InitProjectRules
  \/ InitResolve
  \/ InitFailures
  \/ InitExplicit

Spec == Init /\ [][Next]_vars

\* ------------------------------------------------------------------------
\* Properties of the routing decision
\* ------------------------------------------------------------------------

\* a step of the try block of router()
RouteStep == pc = "route" /\ pc' # "route"

\* the custom router gives no decision
NoCustomResult == ~Truthy(customRouterModel(config, plugin))

\* the built-in rules are evaluated on the request
RulesEvaluated ==
  /\ RouteStep
  /\ ~enc.fails
  /\ NoCustomResult
  /\ req.body.model # Undefined

\* ... in a configuration that has a global Router section
RulesRun == RulesEvaluated /\ IsDefined(GlobalRouter(config))

HasComma == includes(req.body.model, Comma)

\* conditions of the rules on the request being routed, for the Router R in effect
LongCond(R) ==
  /\ Truthy(Get(R, "longContext"))
  /\ \/ enc.count > longContextThresholdOf(R)
     \/ /\ IsDefined(lastMessageUsage)
        /\ lastMessageUsage.input_tokens > longContextThresholdOf(R)
        /\ enc.count > LastUsageMinTokens
TagCond == HasSubagentTag(req.body) /\ includes(req.body.system[2].text, CloseTag)
BgCond == IsClaudeHaiku(req.body.model) /\ Truthy(Get(GlobalRouter(config), "background"))
WebCond(R) == HasWebSearchTool(req.body) /\ Truthy(Get(R, "webSearch"))
ThinkCond(R) == Truthy(req.body.thinking) /\ Truthy(Get(R, "think"))

\* a project or session Router is in effect
OverrideInEffect == IsDefined(usedRouter) /\ usedRouter # GlobalRouter(config)

\* C1: a request without a comma in its model, with no custom result, on which
\* none of the long-context, subagent, background, web-search and thinking
\* rules matches gets the `default` entry of the Router in effect, whenever
\* Router.default is configured.
C1_FallbackDefault ==
  [][(/\ RulesRun
      /\ Truthy(Get(GlobalRouter(config), "default"))
      /\ ~HasComma
      /\ ~LongCond(usedRouter')
      /\ ~TagCond
      /\ ~BgCond
      /\ ~WebCond(usedRouter')
      /\ ~ThinkCond(usedRouter'))
     => (/\ pc' = "done"
         /\ req'.body.model = Get(usedRouter', "default")
         /\ (~OverrideInEffect' => req'.body.model = config.Router.default))]_vars

C1_Witness ==
  /\ pc = "done"
  /\ rule = "default"
  /\ OverrideInEffect
  /\ Truthy(Get(usedRouter, "default"))
  /\ req.body.model = usedRouter.default
  /\ req.body.model # config.Router.default

\* C2: a request "P,M" whose provider and model exist in the configuration
\* ignoring case is resolved to "<name>,<model>" in the stored casing, for
\* every casing of the request.
C2_CanonicalCasing ==
  [][(RulesRun /\ HasComma /\ Len(split(req.body.model, Comma)) = 2)
     => \A i \in 1..Len(config.Providers) :
          \A j \in 1..Len(config.Providers[i].models) :
            LET parts == split(req.body.model, Comma)
                p == config.Providers[i]
            IN (/\ toLowerCase(p.name) = toLowerCase(parts[1])
                /\ toLowerCase(p.models[j]) = toLowerCase(parts[2]))
               => req'.body.model = p.name \o Comma \o p.models[j]]_vars

\* the provider and the model of the request exist in the configuration, ignoring case
FoundIgnoringCase(modelString) ==
  LET parts == split(modelString, Comma)
  IN \E i \in 1..Len(config.Providers) :
       /\ toLowerCase(config.Providers[i].name) = toLowerCase(At(parts, 0))
       /\ \E j \in 1..Len(config.Providers[i].models) :
            toLowerCase(config.Providers[i].models[j]) = toLowerCase(At(parts, 1))

\* C3: a model string with a comma whose provider or model is not found is
\* returned unchanged and no later rule is applied (the system prompt keeps
\* its subagent tag), whatever the tokens, tools, thinking flag and prompt.
C3_LookupMissUnchanged ==
  [][(RulesEvaluated /\ HasComma /\ ~FoundIgnoringCase(req.body.model))
     => (/\ pc' = "done"
         /\ req'.body.model = req.body.model
         /\ req'.body.system = req.body.system
         /\ rule' \notin {"longContext", "subagent", "background", "webSearch",
                          "think", "default"})]_vars

C3_Witness ==
  /\ pc = "done"
  /\ rule = "explicit-miss"
  /\ req0.body.model = ModelMissM
  /\ req.body.model = ModelMissM
  /\ enc.count > DefaultLongContextThreshold
  /\ req.body.system = SysTag
  /\ HasWebSearchTool(req.body)
  /\ Truthy(req.body.thinking)

\* C4: a request that reaches the long-context rule is routed to
\* Router.longContext iff it is configured and tokenCount > threshold, or
\* lastUsage.input_tokens > threshold and tokenCount > 20000; the comparison
\* is strict: at threshold 1000, 1001 tokens escalate, 1000 and 999 do not.
C4_LongContextStrict ==
  [][(RulesEvaluated /\ ~HasComma)
     => LET R == usedRouter'
            threshold == longContextThresholdOf(R)
            escalates ==
              /\ "longContext" \in DOMAIN R
              /\ \/ enc.count > threshold
                 \/ /\ IsDefined(lastMessageUsage)
                    /\ lastMessageUsage.input_tokens > threshold
                    /\ enc.count > 20000
        IN /\ (rule' = "longContext") <=> escalates
           /\ rule' = "longContext" => req'.body.model = R.longContext
           /\ (/\ "longContextThreshold" \in DOMAIN R
               /\ R.longContextThreshold = SampleThreshold
               /\ "longContext" \in DOMAIN R
               /\ ~IsDefined(lastMessageUsage))
              => ((rule' = "longContext") <=> (enc.count >= SampleThreshold + 1))]_vars

C4_Witness ==
  /\ pc = "done"
  /\ rule = "longContext"
  /\ enc.count = SampleThreshold + 1
  /\ "longContextThreshold" \in DOMAIN usedRouter
  /\ usedRouter.longContextThreshold = SampleThreshold
  /\ req.body.model = usedRouter.longContext

\* C5: with a web_search tool and thinking set, webSearch and think both
\* configured and no higher rule matching, the decision is Router.webSearch,
\* never Router.think.
C5_WebSearchBeforeThink ==
  [][(/\ RulesRun
      /\ ~HasComma
      /\ ~LongCond(usedRouter')
      /\ ~TagCond
      /\ ~BgCond
      /\ HasWebSearchTool(req.body)
      /\ Truthy(req.body.thinking)
      /\ Truthy(Get(usedRouter', "webSearch"))
      /\ Truthy(Get(usedRouter', "think")))
     => (/\ pc' = "done"
         /\ req'.body.model = usedRouter'.webSearch
         /\ req'.body.model # usedRouter'.think
         /\ rule' # "think")]_vars

C5_Witness ==
  /\ pc = "done"
  /\ rule = "webSearch"
  /\ Truthy(req.body.thinking)
  /\ Truthy(Get(usedRouter, "think"))
  /\ req.body.model = usedRouter.webSearch

\* the outcome the first matching rule has on the request being routed
FirstRule(R) ==
  IF HasComma THEN "explicit"
  ELSE IF LongCond(R) THEN "longContext"
  ELSE IF TagCond THEN "subagent"
  ELSE IF BgCond THEN "background"
  ELSE IF WebCond(R) THEN "webSearch"
  ELSE IF ThinkCond(R) THEN "think"
  ELSE "default"

\* C6: with no custom decision the built-in decision is the outcome of the
\* first rule whose condition holds, in the order explicit provider,model,
\* long context, subagent tag, background, web search, thinking, default.
C6_StrictRuleOrder ==
  [][RulesRun
     => LET R == usedRouter'
            first == FirstRule(R)
            text == req.body.system[2].text
            decision == req'.body.model
        IN /\ pc' = "done"
           /\ first = "explicit" =>
                /\ rule' \in {"explicit", "explicit-miss"}
                /\ \/ decision = req.body.model
                   \/ \E i \in 1..Len(config.Providers) :
                        \E j \in 1..Len(config.Providers[i].models) :
                          decision = config.Providers[i].name \o Comma \o
                                     config.Providers[i].models[j]
           /\ first = "longContext" => rule' = first /\ decision = R.longContext
           /\ first = "subagent" =>
                /\ rule' = first
                /\ decision = SubSeq(text, 2, Min(Occurrences(text, CloseTag)) - 1)
           /\ first = "background" => rule' = first /\ decision = config.Router.background
           /\ first = "webSearch" => rule' = first /\ decision = R.webSearch
           /\ first = "think" => rule' = first /\ decision = R.think
           /\ first = "default" => rule' = first /\ decision = Get(R, "default")]_vars

C6_Witness ==
  /\ pc = "done"
  /\ rule = "longContext"
  /\ req.body.model = usedRouter.longContext
  /\ req.body.system = SysTag
  /\ IsClaudeHaiku(req0.body.model)
  /\ Truthy(Get(GlobalRouter(config), "background"))
  /\ HasWebSearchTool(req.body)
  /\ Truthy(Get(usedRouter, "webSearch"))

BoundProject(sessionId) ==
  IF sessionId \in DOMAIN sessionProjectCache THEN sessionProjectCache[sessionId]
  ELSE IF fs.scanFails \/ \A i \in 1..Len(fs.folders) : <<fs.folders[i], sessionId>> \notin fs.logs
       THEN NotFound
       ELSE fs.folders[Min({i \in 1..Len(fs.folders) : <<fs.folders[i], sessionId>> \in fs.logs})]

HasRouterSection(file) == file.kind = "json" /\ "Router" \in DOMAIN file.json

\* the Router in effect as the files of the bound project determine it
ExpectedRouter ==
  LET project == BoundProject(req.sessionId)
      sessionFile == FileAt(fs, <<project>> \o req.sessionId \o <<".json">>)
      projectFile == FileAt(fs, <<project, "config.json">>)
  IN IF ~Truthy(req.sessionId) \/ project = NotFound THEN GlobalRouter(config)
     ELSE IF HasRouterSection(sessionFile) THEN sessionFile.json.Router
     ELSE IF HasRouterSection(projectFile) THEN projectFile.json.Router
     ELSE GlobalRouter(config)

\* C8: for a session bound to a project the Router of the long-context,
\* web-search, thinking and default rules is the Router section of the
\* session config file, else of the project config file, else the global
\* Router; it replaces the global Router entirely (a key only the global
\* Router has counts as not configured) and unreadable files are skipped.
C8_EffectiveRouter ==
  [][RulesEvaluated
     => /\ usedRouter' = ExpectedRouter
        /\ rule' \in {"longContext", "webSearch", "think", "default"}
             => req'.body.model = Get(ExpectedRouter, rule')
        /\ \A k \in {"longContext", "webSearch", "think"} :
             (k \notin DOMAIN ExpectedRouter) => rule' # k]_vars

C8_Witness ==
  /\ pc = "done"
  /\ rule = "think"
  /\ usedRouter = MkRouter("s", {"think"}, -1)
  /\ HasWebSearchTool(req.body)
  /\ Truthy(Get(GlobalRouter(config), "webSearch"))
  /\ HasRouterSection(FileAt(fs, <<ProjA, "config.json">>))
  /\ req.body.model = Val("s", "think")

\* C9: router() never throws outward; on an internal failure it returns with
\* req.body.model = config.Router.default and the rest of the body as it was.
C9_NeverThrows ==
  /\ pc # "threw"
  /\ (pc = "done" /\ rule = "catch")
       => /\ req.body.model = Get(GlobalRouter(config), "default")
          /\ [req.body EXCEPT !.model = req0.body.model] = req0.body

\* C10: a truthy result of the custom router becomes req.body.model and no
\* built-in rule runs (no project lookup, no tag stripping); when the custom
\* router throws, fails to load or returns a falsy value the decision is
\* what the built-in rules return for the same request.
C10_CustomRouter ==
  [][(RouteStep /\ ~enc.fails /\ Truthy(Get(config, "CUSTOM_ROUTER_PATH")))
     => LET builtin == getUseModel(variant, config, fs, sessionProjectCache,
                                   req, enc.count, lastMessageUsage)
        IN IF plugin.kind = "returns" /\ plugin.value \notin {Undefined, << >>}
           THEN /\ pc' = "done"
                /\ req'.body.model = plugin.value
                /\ req'.body.system = req.body.system
                /\ sessionProjectCache' = sessionProjectCache
                /\ scans' = scans
           ELSE IF builtin.threw
           THEN rule' \in {"catch", "catch-throw"}
           ELSE /\ pc' = "done"
                /\ req'.body.model = builtin.value
                /\ req'.body.system = builtin.system
                /\ rule' = builtin.rule]_vars

C10_Witness ==
  /\ pc = "done"
  /\ rule = "custom"
  /\ req.body.model = plugin.value
  /\ req.sessionId = S1
  /\ S1 \notin DOMAIN sessionProjectCache
  /\ scans = 0
  /\ req.body.system = SysTag

\* the threshold of the long-context rule as configured:
\* Router.longContextThreshold when the key is there, 60000 when it is absent
ConfiguredThreshold(R) ==
  IF "longContextThreshold" \in DOMAIN R
  THEN R.longContextThreshold
  ELSE DefaultLongContextThreshold

\* C17: the long-context rule compares with Router.longContextThreshold
\* whenever that key is configured, for every configured value including 0,
\* and with 60000 only when the key is absent: a request that reaches the rule
\* with Router.longContext set escalates iff tokenCount > that threshold, or
\* lastUsage.input_tokens > that threshold and tokenCount > 20000.
C17_ThresholdAsConfigured ==
  [][(RulesEvaluated /\ ~HasComma /\ "longContext" \in DOMAIN usedRouter')
     => LET threshold == ConfiguredThreshold(usedRouter')
        IN (rule' = "longContext")
             <=> \/ enc.count > threshold
                 \/ /\ IsDefined(lastMessageUsage)
                    /\ lastMessageUsage.input_tokens > threshold
                    /\ enc.count > LastUsageMinTokens]_vars

\* C18: when the subagent rule is reached (no comma in the model, no long
\* context) and the text of the second system block starts with the opening
\* tag: with a closing tag in the text, the decision is the text between the
\* opening tag and the first closing tag, and the block's text loses exactly
\* that tag pair with its content, the rest being kept; without a closing tag
\* the system prompt is left as it is and the decision is the one of the
\* background, web-search, thinking and default rules.
C18_SubagentTag ==
  [][(RulesRun /\ ~HasComma /\ ~LongCond(usedRouter') /\ HasSubagentTag(req.body))
     => LET R == usedRouter'
            text == req.body.system[2].text
            decision == req'.body.model
            close == Min(Occurrences(text, CloseTag))
        IN IF includes(text, CloseTag)
           THEN /\ pc' = "done"
                /\ decision = SubSeq(text, 2, close - 1)
                /\ req'.body.system =
                     [req.body.system EXCEPT ![2].text = SubSeq(text, close + 1, Len(text))]
           ELSE /\ pc' = "done"
                /\ req'.body.system = req.body.system
                /\ decision = IF BgCond THEN config.Router.background
                              ELSE IF WebCond(R) THEN R.webSearch
                              ELSE IF ThinkCond(R) THEN R.think
                              ELSE Get(R, "default")]_vars

C18_Witness ==
  /\ pc = "done"
  /\ rule = "subagent"
  /\ req0.body.system = SysTwoTags
  /\ req.body.model = SubModel
  /\ req.body.system[2].text = <<"t">> \o OpenTag \o <<"x">> \o CloseTag \o <<"u">>
  /\ IsClaudeHaiku(req0.body.model)
  /\ Truthy(Get(GlobalRouter(config), "background"))
  /\ HasWebSearchTool(req.body)

\* ------------------------------------------------------------------------
\* Repeated project lookups: searchProjectBySession called in sequence while
\* the projects directory changes between the calls
\* ------------------------------------------------------------------------

\* number of calls of searchProjectBySession in a run
MaxCalls == 3

LookupSessions == {S1, S2}

\* one call of searchProjectBySession(sessionId), from its cache check to its return
Lookup ==
  /\ Len(calls) < MaxCalls
  /\ \E sid \in LookupSessions :
       LET s == searchProjectBySession(fs, sessionProjectCache, sid)
       IN /\ sessionProjectCache' = s.cache
          /\ scans' = scans + s.scans
          /\ calls' = Append(calls, [sessionId |-> sid,
                                     result |-> s.result,
                                     scans |-> s.scans,
                                     failed |-> s.scans > 0 /\ fs.scanFails,
                                     dir |-> fs.logs])
  /\ UNCHANGED <<variant, config, fs, plugin, enc, sessionUsageCache, req0, req,
                 lastMessageUsage, pc, rule, usedRouter>>
  /\ UNCHANGED streamVars

\* the projects directory between two calls: the log of S1 appears in ProjA or
\* goes away, opendir starts or stops failing
DirectoryChanges ==
  /\ \E bound \in BOOLEAN, scanFails \in BOOLEAN :
       /\ fs' = MkFs(bound, scanFails, Missing, Missing, Missing)
       /\ fs' # fs
  /\ UNCHANGED <<variant, config, plugin, enc, sessionProjectCache,
                 sessionUsageCache, req0, req, lastMessageUsage, pc, rule,
                 usedRouter, scans, calls>>
  /\ UNCHANGED streamVars

InitLookup ==
  \E bound \in BOOLEAN, scanFails \in BOOLEAN, v \in Variants :
    Start(v, MkConfig(FullRouter("g"), FALSE, FALSE),
          MkFs(bound, scanFails, Missing, Missing, Missing),
          NoPlugin, Counted(0), EmptyCache, EmptyCache,
          MkReq(ModelPlain, SysPlain, PlainTools, FALSE, UserS1))

NextLookup == Lookup \/ DirectoryChanges

SpecLookup == InitLookup /\ [][NextLookup]_vars

\* C11: when a call of searchProjectBySession returned null for a session id,
\* the next call with the same id returns null again without scanning the
\* projects directory, so the two calls scan at most once; this holds as well
\* when the scan of the first call failed with an error
C11_NegativeCacheStable ==
  \A i \in 1..(Len(calls) - 1) :
    (calls[i].sessionId = calls[i + 1].sessionId /\ calls[i].result = NotFound)
      => /\ calls[i + 1].result = NotFound
         /\ calls[i + 1].scans = 0
         /\ calls[i].scans + calls[i + 1].scans <= 1

C11_Witness ==
  \E i \in 1..(Len(calls) - 1) :
    /\ calls[i].sessionId = calls[i + 1].sessionId
    /\ calls[i].failed
    /\ calls[i].result = NotFound
    /\ calls[i + 1].result = NotFound
    /\ ~fs.scanFails

\* ------------------------------------------------------------------------
\* Project lookups of concurrent requests
\* ------------------------------------------------------------------------

MaxTasks == 3
CacheMax == 1

ConcurrentSessions == {S1, S2}

\* the log files the projects directory may hold
ProjectLogs == {<<ProjA, S1>>, <<"other", S2>>}

\* one call of searchProjectBySession: where it stands (opening: awaiting
\* opendir; listed: awaiting the stats; returned), what it returned, and the
\* log files of its session the directory held when its stats were made
Task(sid, stage, result, scanned, failed, dir) ==
  [sessionId |-> sid, stage |-> stage, result |-> result, scans |-> scanned,
   failed |-> failed, dir |-> dir]

\* sessionProjectCache.set on a cache of at most CacheMax entries: a new key
\* put into a full cache takes the place of an entry (the least recently used
\* one; any entry here)
LruSet(cache, k, v) ==
  IF k \in DOMAIN cache \/ Cardinality(DOMAIN cache) < CacheMax
  THEN {CachePut(cache, k, v)}
  ELSE {CachePut([x \in (DOMAIN cache) \ {victim} |-> cache[x]], k, v) :
          victim \in DOMAIN cache}

ConcurrentUnchanged ==
  UNCHANGED <<variant, config, plugin, enc, sessionUsageCache, req0, req,
              lastMessageUsage, pc, rule, usedRouter, streamVars>>

\* a request calls searchProjectBySession: the cache is tested, a hit returns
\* at once, a miss goes on to `await opendir`
CallBegins ==
  /\ Len(calls) < MaxTasks
  /\ \E sid \in ConcurrentSessions :
       IF sid \in DOMAIN sessionProjectCache
       THEN LET s == searchProjectBySession(fs, sessionProjectCache, sid)
            IN calls' = Append(calls, Task(sid, "returned", s.result, 0, FALSE, {}))
       ELSE calls' = Append(calls, Task(sid, "opening", NotFound, 0, FALSE, {}))
  /\ UNCHANGED <<fs, sessionProjectCache, scans>>
  /\ ConcurrentUnchanged

\* opendir and the iteration over the directory are over: the folder names
\* are collected, or the error is caught, '' is cached and null returned
DirectoryRead ==
  /\ \E i \in 1..Len(calls) :
       /\ calls[i].stage = "opening"
       /\ IF fs.scanFails
          THEN /\ calls' = [calls EXCEPT ![i] =
                              Task(@.sessionId, "returned", NotFound, 1, TRUE, {})]
               /\ sessionProjectCache' \in
                    LruSet(sessionProjectCache, calls[i].sessionId, NotFound)
          ELSE /\ calls' = [calls EXCEPT ![i].stage = "listed"]
               /\ sessionProjectCache' = sessionProjectCache
  /\ scans' = scans + 1
  /\ UNCHANGED fs
  /\ ConcurrentUnchanged

\* the stats of <folder>/<sessionId>.jsonl are over: the first folder that
\* holds the file, or '' when none does, is cached and returned
StatsDone ==
  /\ \E i \in 1..Len(calls) :
       /\ calls[i].stage = "listed"
       /\ LET r == ScanProjects(fs, calls[i].sessionId)
          IN /\ calls' = [calls EXCEPT ![i] =
                            Task(@.sessionId, "returned", r, 1, FALSE,
                                 {l \in fs.logs : l[2] = calls[i].sessionId})]
             /\ sessionProjectCache' \in
                  LruSet(sessionProjectCache, calls[i].sessionId, r)
  /\ UNCHANGED <<fs, scans>>
  /\ ConcurrentUnchanged

\* the projects directory changes while calls are in flight: log files
\* appear or go away, opendir starts or stops failing
ProjectsChange ==
  /\ \E logs \in SUBSET ProjectLogs, scanFails \in BOOLEAN :
       /\ fs' = [fs EXCEPT !.logs = logs, !.scanFails = scanFails]
       /\ fs' # fs
  /\ UNCHANGED <<sessionProjectCache, scans, calls>>
  /\ ConcurrentUnchanged

InitConcurrent ==
  \E v \in Variants :
    Start(v, MkConfig(FullRouter("g"), FALSE, FALSE), PlainFs,
          NoPlugin, Counted(0), EmptyCache, EmptyCache,
          MkReq(ModelPlain, SysPlain, PlainTools, FALSE, UserS1))

NextConcurrent == CallBegins \/ DirectoryRead \/ StatsDone \/ ProjectsChange

SpecConcurrent == InitConcurrent /\ [][NextConcurrent]_vars

\* the result is one a scan for this session id gives: not-found, or a
\* project whose directory held <sessionId>.jsonl when it was scanned
ScanResultFor(sid, result) ==
  \E k \in 1..Len(calls) :
    /\ calls[k].sessionId = sid
    /\ calls[k].stage = "returned"
    /\ calls[k].scans = 1
    /\ calls[k].result = result
    /\ result # NotFound => <<result, sid>> \in calls[k].dir

\* C26: for any interleaving of calls of searchProjectBySession of concurrent
\* requests, on the same or on different session ids, every call returns, and
\* every cache entry holds, the result of a scan made for that same session
\* id (a project whose directory held <sessionId>.jsonl at scan time, or
\* not-found), never a project found for another session id, and the cache
\* never holds more entries than its maximum.
C26_ConcurrentLookups ==
  /\ \A i \in 1..Len(calls) :
       calls[i].stage = "returned" => ScanResultFor(calls[i].sessionId, calls[i].result)
  /\ \A sid \in DOMAIN sessionProjectCache :
       ScanResultFor(sid, sessionProjectCache[sid])
  /\ Cardinality(DOMAIN sessionProjectCache) <= CacheMax

\* two calls for S1 in flight together scan different states of the
\* directory, a call for S2 finds its own project, and the entry of S2 has
\* been put into the full cache
C26_Witness ==
  /\ Len(calls) = 3
  /\ calls[1] = Task(S1, "returned", ProjA, 1, FALSE, {<<ProjA, S1>>})
  /\ calls[2] = Task(S1, "returned", NotFound, 1, FALSE, {})
  /\ calls[3] = Task(S2, "returned", "other", 1, FALSE, {<<"other", S2>>})
  /\ sessionProjectCache = (S2 :> "other")

\* ------------------------------------------------------------------------
\* The onSend hook: SSE events, agents and their tools
\* ------------------------------------------------------------------------

\* an SSE event as SSEParserTransform hands it to the callback: data.event,
\* data.data.index (<< >> when the data has no index), content_block.name and
\* .id, delta.type and delta.partial_json, data.data.usage; data.data.type is
\* the event name; `raw` says that the data is no JSON text; `origin` stands
\* for the rest of the content, which tells the events of one response from
\* those of another
Event(o, e, index, name, id, dtype, frag, usage) ==
  [origin |-> o, event |-> e, index |-> index, name |-> name, id |-> id,
   dtype |-> dtype, partial_json |-> frag, usage |-> usage, raw |-> FALSE]

MessageStart(o) == Event(o, "message_start", << >>, "", "", "", << >>, UndefinedObj)
BlockStart(o, i, name, id) ==
  Event(o, "content_block_start", <<i>>, name, id, "", << >>, UndefinedObj)
BlockDelta(o, i, dtype, frag) ==
  Event(o, "content_block_delta", <<i>>, "", "", dtype, frag, UndefinedObj)
BlockStop(o, i) == Event(o, "content_block_stop", <<i>>, "", "", "", << >>, UndefinedObj)
MessageDelta(o, usage) == Event(o, "message_delta", << >>, "", "", "", << >>, usage)
MessageStop(o) == Event(o, "message_stop", << >>, "", "", "", << >>, UndefinedObj)
Raw(ev) == [ev EXCEPT !.raw = TRUE]

\* agentsManager: the registered agents and the names of their tools
AgentTools == [agentA |-> {"toolA"}, agentB |-> {"toolB"}]

\* a slip: the tool is looked up in every registered agent
owningAgent_registered(agents, toolName) ==
  FirstOr(SelectSeq(<<"agentA", "agentB">>, LAMBDA a : toolName \in AgentTools[a]), "")

\* req.agents.find(name => agentsManager.getAgent(name)?.tools.get(toolName)):
\* the first active agent that has the tool, "" for undefined
owningAgent(agents, toolName) ==
  FirstOr(SelectSeq(agents, LAMBDA a : toolName \in AgentTools[a]), "")

\* the agents whose shouldHandle returns true for a request, in the order of
\* getAllAgents()
ActiveAgents == {<< >>, <<"agentA">>, <<"agentA", "agentB">>}

\* Array.from(agent.tools.values()), the names
AgentToolList == [agentA |-> <<"toolA">>, agentB |-> <<"toolB">>]

\* the tools of the request after the loop of the preHandler over the agents
\* whose shouldHandle returned true, in the order of getAllAgents(): the
\* tools of each are put in front of req.body.tools
RECURSIVE injectTools(_, _)
injectTools(tools, useAgents) ==
  IF useAgents = << >> THEN tools
  ELSE injectTools(AgentToolList[Head(useAgents)] \o tools, Tail(useAgents))

\* JSON5.parse of the accumulated argument text: an object text is one
\* opening brace, members, one closing brace; anything else throws
parseArgs(text) ==
  IF /\ Len(text) >= 2
     /\ text[1] = "{"
     /\ text[Len(text)] = "}"
     /\ \A i \in 2..(Len(text) - 1) : text[i] \notin {"{", "}"}
  THEN [ok |-> TRUE, value |-> SubSeq(text, 2, Len(text) - 1)]
  ELSE [ok |-> FALSE, value |-> << >>]

\* what the handler of a tool resolves to
ToolResult(name, args) == [tool |-> name, args |-> args]

\* a slip: the framing events of the nested response are forwarded as well
forwardsNested_all(eventData) == TRUE

\* !['message_start', 'message_stop'].includes(eventData.event)
forwardsNested(eventData) == eventData.event \notin {"message_start", "message_stop"}

\* the high water mark of the queue of the rewritten stream
HighWaterMark == 1

\* controller.desiredSize of the stream handed to the client: the high water
\* mark less what is queued and not taken yet, 0 once the consumer has
\* cancelled
desiredSize(consumer, queueSize) ==
  IF consumer = "open" THEN HighWaterMark - queueSize ELSE 0

\* the text of one chunk of the response stream: the serialized event
EventLine(e) == <<"event: ", e>>
DataPrefix == <<"\ndata: ">>
DataText(ev) == [json |-> [type |-> ev.event, usage |-> ev.usage], wellFormed |-> ~ev.raw]
serialize(ev) == EventLine(ev.event) \o DataPrefix \o <<DataText(ev)>>

\* JSON.parse(dataStr.slice(27)): the text after "event: message_delta\ndata: "
parseDelta(dataStr) ==
  LET str == SubSeq(dataStr, Len(EventLine("message_delta")) + Len(DataPrefix) + 1,
                    Len(dataStr))
  IN IF Len(str) = 1 /\ str[1].wellFormed
     THEN [ok |-> TRUE, message |-> str[1].json]
     ELSE [ok |-> FALSE, message |-> UndefinedObj]

\* a slip: the catch of the reader throws on what is not a premature close
readerCatch_rethrows(readError) ==
  IF readError \in {"AbortError", "ERR_STREAM_PREMATURE_CLOSE"} THEN "failed" ELSE "rejected"

\* the catch block around the loop of the usage reader: every error is logged
readerCatch(readError) == "failed"

\* ------------------------------------------------------------------------
\* The onSend hook: the rewritten stream of a request with active agents
\* ------------------------------------------------------------------------

\* onSend on a streamed payload: with a session id, the rewritten stream when
\* the request has agents, else the tee with the usage reader on the clone;
\* without a session id the payload itself
\* the preHandler on the inbound request, up to the call of router(): the
\* agents whose shouldHandle returns true are noted in req.agents and their
\* tools are put in front of req.body.tools
InjectAgents ==
  /\ served.stage = "inbound"
  /\ \E useAgents \in ActiveAgents :
       served' = [served EXCEPT !.agents = useAgents,
                                !.tools = injectTools(@, useAgents),
                                !.stage = "handled"]
  /\ UNCHANGED <<routerVars, calls, payload, source, mode, pos, spc, client,
                 emitted, closureVars, messages, toolCalls, aborted, nested, teeVars>>

\* a slip: the session id is not looked at
onSendStream_ungated(sessionId, agents) ==
  IF agents # << >> THEN "rewrite" ELSE "tee"

\* what the hook hands to done() for a streamed payload: the payload itself
\* without a session id, the rewritten stream with agents, else the tee
onSendStream(sessionId, agents) ==
  IF ~Truthy(sessionId) THEN "plain"
  ELSE IF agents # << >> THEN "rewrite"
  ELSE "tee"

OnSend ==
  /\ mode = "hook"
  /\ served.stage = "handled"
  /\ payload # << >>
  /\ mode' = onSendStream(served.sessionId, served.agents)
  /\ reader' = IF mode' = "tee" THEN "reading" ELSE reader
  /\ UNCHANGED <<routerVars, calls, served, payload, source, pos, spc, client,
                 emitted, closureVars, messages, toolCalls, aborted, nested,
                 clientPos, readerPos>>

\* rewriteStream hands the next event of the payload to the callback
Delivering ==
  /\ mode = "rewrite"
  /\ spc = "idle"
  /\ client = "open"
  /\ pos < Len(payload)

\* the conditions of the callback, in the order it tests them
OpensTool(data) ==
  /\ data.event = "content_block_start"
  /\ data.name # ""
  /\ owningAgent(served.agents, data.name) # ""

AtOpenTool(data) == currentToolIndex > -1 /\ data.index = <<currentToolIndex>>

CollectsArgs(data) ==
  ~OpensTool(data) /\ AtOpenTool(data) /\ data.dtype = "input_json_delta"

ClosesTool(data) ==
  /\ ~OpensTool(data)
  /\ ~CollectsArgs(data)
  /\ AtOpenTool(data)
  /\ data.event = "content_block_stop"

Splices(data) ==
  /\ ~OpensTool(data)
  /\ ~CollectsArgs(data)
  /\ ~ClosesTool(data)
  /\ data.event = "message_delta"
  /\ toolMessages # << >>

\* content_block_start of a tool of an active agent
ToolStart ==
  /\ Delivering
  /\ LET data == payload[pos + 1]
     IN /\ OpensTool(data)
        /\ currentAgent' = owningAgent(served.agents, data.name)
        /\ currentToolIndex' = data.index[1]
        /\ currentToolName' = data.name
        /\ currentToolId' = data.id
  /\ pos' = pos + 1
  /\ UNCHANGED <<routerVars, calls, served, payload, source, mode, spc, client,
                 emitted, currentToolArgs, toolMessages, assistantMessages,
                 messages, toolCalls, aborted, nested, teeVars>>

\* input_json_delta at the index of the open tool
ToolArgs ==
  /\ Delivering
  /\ LET data == payload[pos + 1]
     IN /\ CollectsArgs(data)
        /\ currentToolArgs' = currentToolArgs \o data.partial_json
  /\ pos' = pos + 1
  /\ UNCHANGED <<routerVars, calls, served, payload, source, mode, spc, client,
                 emitted, currentAgent, currentToolIndex, currentToolName,
                 currentToolId, toolMessages, assistantMessages, messages,
                 toolCalls, aborted, nested, teeVars>>

\* the record of one JSON5.parse / handler invocation
ToolCall(outcome) ==
  [index |-> currentToolIndex, name |-> currentToolName, id |-> currentToolId,
   text |-> currentToolArgs, outcome |-> outcome]

\* content_block_stop at the index of the open tool, JSON5.parse throws
ToolStopUnparsed ==
  /\ Delivering
  /\ ClosesTool(payload[pos + 1])
  /\ ~parseArgs(currentToolArgs).ok
  /\ toolCalls' = Append(toolCalls, ToolCall("parse-error"))
  /\ pos' = pos + 1
  /\ UNCHANGED <<routerVars, calls, served, payload, source, mode, spc, client,
                 emitted, closureVars, messages, aborted, nested, teeVars>>

\* content_block_stop at the index of the open tool, the handler throws
ToolStopThrows ==
  /\ Delivering
  /\ ClosesTool(payload[pos + 1])
  /\ parseArgs(currentToolArgs).ok
  /\ assistantMessages' =
       Append(assistantMessages,
              [type |-> "tool_use", id |-> currentToolId, name |-> currentToolName,
               input |-> parseArgs(currentToolArgs).value])
  /\ toolCalls' = Append(toolCalls, ToolCall("handler-error"))
  /\ pos' = pos + 1
  /\ UNCHANGED <<routerVars, calls, served, payload, source, mode, spc, client,
                 emitted, currentAgent, currentToolIndex, currentToolName,
                 currentToolArgs, currentToolId, toolMessages, messages, aborted,
                 nested, teeVars>>

\* content_block_stop at the index of the open tool, the handler returns
ToolStopReturns ==
  /\ Delivering
  /\ ClosesTool(payload[pos + 1])
  /\ parseArgs(currentToolArgs).ok
  /\ LET args == parseArgs(currentToolArgs).value
     IN /\ assistantMessages' =
             Append(assistantMessages,
                    [type |-> "tool_use", id |-> currentToolId,
                     name |-> currentToolName, input |-> args])
        /\ toolMessages' =
             Append(toolMessages,
                    [tool_use_id |-> currentToolId, type |-> "tool_result",
                     content |-> ToolResult(currentToolName, args)])
  /\ toolCalls' = Append(toolCalls, ToolCall("result"))
  /\ currentAgent' = ""
  /\ currentToolIndex' = -1
  /\ currentToolName' = ""
  /\ currentToolArgs' = << >>
  /\ currentToolId' = ""
  /\ pos' = pos + 1
  /\ UNCHANGED <<routerVars, calls, served, payload, source, mode, spc, client,
                 emitted, messages, aborted, nested, teeVars>>

\* a slip: the tool results are pushed before the assistant message
spliceMessages_userFirst(assistant, tool) ==
  << [role |-> "user", content |-> tool],
     [role |-> "assistant", content |-> assistant] >>

\* the two req.body.messages.push(...) of the splice
spliceMessages(assistant, tool) ==
  << [role |-> "assistant", content |-> assistant],
     [role |-> "user", content |-> tool] >>

\* message_delta with tool results collected: the two messages are pushed
\* and the nested request is sent with JSON.stringify(req.body) as its body
SpliceBegin ==
  /\ Delivering
  /\ Splices(payload[pos + 1])
  /\ messages' = messages \o spliceMessages(assistantMessages, toolMessages)
  /\ nested' = [state |-> "fetching", events |-> << >>,
                body |-> [messages |-> messages', tools |-> served.tools],
                error |-> ""]
  /\ spc' = "fetching"
  /\ pos' = pos + 1
  /\ UNCHANGED <<routerVars, calls, served, payload, source, mode, client, emitted,
                 closureVars, toolCalls, aborted, teeVars>>

\* return data: the event is enqueued as it came
PassThrough ==
  /\ Delivering
  /\ LET data == payload[pos + 1]
     IN /\ ~OpensTool(data)
        /\ ~CollectsArgs(data)
        /\ ~ClosesTool(data)
        /\ ~Splices(data)
        /\ emitted' = Append(emitted, data)
  /\ pos' = pos + 1
  /\ UNCHANGED <<routerVars, calls, served, payload, source, mode, spc, client,
                 closureVars, messages, toolCalls, aborted, nested, teeVars>>

\* the payload is read to its end: the rewritten stream is closed
StreamEnd ==
  /\ mode = "rewrite"
  /\ spc = "idle"
  /\ client = "open"
  /\ pos = Len(payload)
  /\ spc' = "done"
  /\ UNCHANGED <<routerVars, calls, served, payload, source, mode, pos, client,
                 emitted, closureVars, messages, toolCalls, aborted, nested, teeVars>>

\* the responses of the nested request
NestedEvents ==
  << MessageStart("nested"),
     BlockStart("nested", 0, "", ""),
     BlockDelta("nested", 0, "text_delta", << >>),
     BlockStop("nested", 0),
     MessageDelta("nested", Usage(20)),
     MessageStop("nested") >>

NestedResponses ==
  {[ok |-> TRUE, events |-> NestedEvents], [ok |-> FALSE, events |-> << >>]}

\* the nested request arrives at the server and passes the preHandler: the
\* tools of the agents whose shouldHandle returns true for it are put in
\* front of the tools its body came with
NestedPreHandler ==
  /\ spc = "fetching"
  /\ nested.state = "fetching"
  /\ \E useAgents \in ActiveAgents :
       nested' = [nested EXCEPT !.state = "accepted",
                                !.body.tools = injectTools(@, useAgents)]
  /\ UNCHANGED <<routerVars, calls, served, payload, source, mode, pos, spc, client,
                 emitted, closureVars, messages, toolCalls, aborted, teeVars>>

\* await fetch(...) resolves: on a response that is not ok the callback
\* returns, else it reads the parsed body
FetchResolves ==
  /\ spc = "fetching"
  /\ nested.state = "accepted"
  /\ \E response \in NestedResponses :
       IF response.ok
       THEN /\ nested' = [nested EXCEPT !.state = "reading",
                                         !.events = response.events]
            /\ spc' = "reading"
       ELSE /\ nested' = [nested EXCEPT !.state = "refused"]
            /\ spc' = "idle"
  /\ UNCHANGED <<routerVars, calls, served, payload, source, mode, pos, client,
                 emitted, closureVars, messages, toolCalls, aborted, teeVars>>

\* the catch of the callback: ERR_STREAM_PREMATURE_CLOSE aborts and returns,
\* every other error is thrown on, which errors the rewritten stream
CallbackCatch(error) ==
  IF error = "ERR_STREAM_PREMATURE_CLOSE"
  THEN [spc |-> "idle", aborted |-> TRUE]
  ELSE [spc |-> "errored", aborted |-> aborted]

\* await fetch(...) rejects
FetchRejects ==
  /\ spc = "fetching"
  /\ \E error \in {"AbortError", "ERR_STREAM_PREMATURE_CLOSE", "other"} :
       /\ spc' = CallbackCatch(error).spc
       /\ aborted' = CallbackCatch(error).aborted
       /\ nested' = [nested EXCEPT !.state = "failed", !.error = error]
  /\ UNCHANGED <<routerVars, calls, served, payload, source, mode, pos, client,
                 emitted, closureVars, messages, toolCalls, teeVars>>

\* reader.read() gives message_start or message_stop: continue
NestedSkip ==
  /\ spc = "reading"
  /\ nested.events # << >>
  /\ ~forwardsNested(Head(nested.events))
  /\ nested' = [nested EXCEPT !.events = Tail(@)]
  /\ UNCHANGED <<routerVars, calls, served, payload, source, mode, pos, spc, client,
                 emitted, closureVars, messages, toolCalls, aborted, teeVars>>

\* reader.read() gives another event and the stream takes it: enqueue
NestedForward ==
  /\ spc = "reading"
  /\ nested.events # << >>
  /\ forwardsNested(Head(nested.events))
  /\ desiredSize(client, Len(emitted) - clientPos) # 0
  /\ emitted' = Append(emitted, Head(nested.events))
  /\ nested' = [nested EXCEPT !.events = Tail(@)]
  /\ UNCHANGED <<routerVars, calls, served, payload, source, mode, pos, spc, client,
                 closureVars, messages, toolCalls, aborted, teeVars>>

\* reader.read() gives another event and desiredSize is falsy: break
NestedBreak ==
  /\ spc = "reading"
  /\ nested.events # << >>
  /\ forwardsNested(Head(nested.events))
  /\ desiredSize(client, Len(emitted) - clientPos) = 0
  /\ nested' = [nested EXCEPT !.state = "left"]
  /\ spc' = "idle"
  /\ UNCHANGED <<routerVars, calls, served, payload, source, mode, pos, client,
                 emitted, closureVars, messages, toolCalls, aborted, teeVars>>

\* reader.read() gives done: break
NestedEnd ==
  /\ spc = "reading"
  /\ nested.events = << >>
  /\ nested' = [nested EXCEPT !.state = "finished"]
  /\ spc' = "idle"
  /\ UNCHANGED <<routerVars, calls, served, payload, source, mode, pos, client,
                 emitted, closureVars, messages, toolCalls, aborted, teeVars>>

\* reader.read() rejects: AbortError and ERR_STREAM_PREMATURE_CLOSE abort and
\* break, every other error is thrown to the catch of the callback
NestedReadFails ==
  /\ spc = "reading"
  /\ \E readError \in {"AbortError", "ERR_STREAM_PREMATURE_CLOSE", "other"} :
       /\ IF readError \in {"AbortError", "ERR_STREAM_PREMATURE_CLOSE"}
          THEN spc' = "idle" /\ aborted' = TRUE
          ELSE /\ spc' = CallbackCatch(readError).spc
               /\ aborted' = CallbackCatch(readError).aborted
       /\ nested' = [nested EXCEPT !.state = "failed", !.error = readError]
  /\ UNCHANGED <<routerVars, calls, served, payload, source, mode, pos, client,
                 emitted, closureVars, messages, toolCalls, teeVars>>

\* the consumer of the rewritten stream takes the next queued event
ClientTakes ==
  /\ mode = "rewrite"
  /\ client = "open"
  /\ spc # "errored"
  /\ clientPos < Len(emitted)
  /\ clientPos' = clientPos + 1
  /\ UNCHANGED <<routerVars, calls, served, payload, source, mode, pos, spc, client,
                 emitted, closureVars, messages, toolCalls, aborted, nested,
                 reader, readerPos>>

\* the client closes the response it is reading
ClientCloses ==
  /\ mode \in {"rewrite", "tee", "plain"}
  /\ client = "open"
  /\ spc \notin {"done", "errored"}
  /\ client' = "closed"
  /\ UNCHANGED <<routerVars, calls, served, payload, source, mode, pos, spc,
                 emitted, closureVars, messages, toolCalls, aborted, nested, teeVars>>

\* ------------------------------------------------------------------------
\* The onSend hook: the tee of a request without agents, the usage reader
\* ------------------------------------------------------------------------

\* the chunks of the response stream, one serialized event each
Chunk(i) == serialize(payload[i])

\* the response stream fails while it is being read
SourceFails ==
  /\ mode = "tee"
  /\ source = "flowing"
  /\ reader = "reading" \/ (client = "open" /\ clientPos < Len(payload))
  /\ \E error \in {"AbortError", "ERR_STREAM_PREMATURE_CLOSE", "other"} : source' = error
  /\ UNCHANGED <<routerVars, calls, served, payload, mode, pos, spc, client, emitted,
                 closureVars, messages, toolCalls, aborted, nested, teeVars>>

\* the client reads the next chunk of the stream onSend handed over
\* (originalStream of the tee, or the payload itself)
ClientRead ==
  /\ mode \in {"tee", "plain"}
  /\ client = "open"
  /\ source = "flowing"
  /\ clientPos < Len(payload)
  /\ emitted' = Append(emitted, Chunk(clientPos + 1))
  /\ clientPos' = clientPos + 1
  /\ UNCHANGED <<routerVars, calls, served, payload, source, mode, pos, spc, client,
                 closureVars, messages, toolCalls, aborted, nested, reader, readerPos>>

\* one round of the loop of read(clonedStream) on a chunk: a chunk that starts
\* with "event: message_delta" is sliced and parsed, its usage is put in the
\* cache; a failing JSON.parse is caught and the loop goes on
UsageRead ==
  /\ mode = "tee"
  /\ reader = "reading"
  /\ source = "flowing"
  /\ readerPos < Len(payload)
  /\ LET dataStr == Chunk(readerPos + 1)
         parsed == parseDelta(dataStr)
     IN IF startsWith(dataStr, EventLine("message_delta")) /\ parsed.ok
        THEN sessionUsageCache' =
               CachePut(sessionUsageCache, served.sessionId, parsed.message.usage)
        ELSE sessionUsageCache' = sessionUsageCache
  /\ readerPos' = readerPos + 1
  /\ UNCHANGED <<variant, config, fs, plugin, enc, sessionProjectCache, req0, req,
                 lastMessageUsage, pc, rule, usedRouter, scans>>
  /\ UNCHANGED <<calls, served, payload, source, mode, pos, spc, client, emitted,
                 closureVars, messages, toolCalls, aborted, nested, clientPos, reader>>

\* reader.read() gives done: the loop ends, the lock is released
UsageReadEnds ==
  /\ mode = "tee"
  /\ reader = "reading"
  /\ source = "flowing"
  /\ readerPos = Len(payload)
  /\ reader' = "ended"
  /\ UNCHANGED <<routerVars, calls, served, payload, source, mode, pos, spc, client,
                 emitted, closureVars, messages, toolCalls, aborted, nested,
                 clientPos, readerPos>>

\* reader.read() rejects with the error of the stream: the catch of the reader
UsageReadFails ==
  /\ mode = "tee"
  /\ reader = "reading"
  /\ source \notin {"flowing", "ended"}
  /\ reader' = readerCatch(source)
  /\ UNCHANGED <<routerVars, calls, served, payload, source, mode, pos, spc, client,
                 emitted, closureVars, messages, toolCalls, aborted, nested,
                 clientPos, readerPos>>

\* ------------------------------------------------------------------------
\* One streamed response of a session and the routing of its next request
\* ------------------------------------------------------------------------

\* the response has been processed to its end
Processed ==
  \/ mode = "rewrite" /\ spc = "done"
  \/ mode = "tee" /\ reader = "ended" /\ clientPos = Len(payload)
  \/ mode = "plain" /\ clientPos = Len(payload)

\* nothing more happens on the response
ResponseOver ==
  \/ Processed
  \/ mode = "rewrite" /\ spc = "errored"
  \/ mode = "rewrite" /\ spc = "idle" /\ client = "closed"
  \/ mode = "tee" /\ reader \in {"ended", "failed", "rejected"}
                  /\ (client = "closed" \/ source # "flowing")
  \/ mode = "plain" /\ client = "closed"

\* router() on the next request of the client
RouteNext == ResponseOver /\ RouterEntry

\* argument texts of a tool call, one input_json_delta per element
ArgsWhole == << <<"{">>, <<"k">>, <<"}">> >>
ArgsOne == << <<"{", "k", "}">> >>
ArgsNone == << >>
ArgsCut == << <<"{">>, <<"k">> >>

ToolCallEvents(i, name, id, args) ==
  <<BlockStart("outer", i, name, id)>> \o
  [j \in 1..Len(args) |-> BlockDelta("outer", i, "input_json_delta", args[j])] \o
  <<BlockStop("outer", i)>>

TextBlock(i) ==
  << BlockStart("outer", i, "", ""),
     BlockDelta("outer", i, "text_delta", << >>),
     BlockStop("outer", i) >>

ResponseUsage == Usage(500)
TerminalDelta == MessageDelta("outer", ResponseUsage)

Framed(blocks, delta) ==
  <<MessageStart("outer")>> \o blocks \o <<delta, MessageStop("outer")>>

\* the scripted stream of P6: one call of toolA, then message_delta
SpliceStreams ==
  {ToolCallEvents(1, "toolA", "id1", a) \o <<TerminalDelta>> :
     a \in {ArgsWhole, ArgsOne, ArgsNone, ArgsCut}}

\* a text block, then one tool call
OneCallStreams ==
  {Framed(TextBlock(0) \o ToolCallEvents(1, t, "id1", a), TerminalDelta) :
     t \in {"toolA", "toolB", "bash"}, a \in {ArgsWhole, ArgsCut}}

\* two tool calls in one response
TwoCallStreams ==
  {Framed(ToolCallEvents(0, "toolA", "id1", a) \o ToolCallEvents(1, t, "id2", b),
          TerminalDelta) :
     a \in {ArgsOne, ArgsCut}, t \in {"toolA", "toolB"},
     b \in {ArgsWhole, ArgsOne, ArgsNone}}

\* text only, with a message_delta that carries usage or one that is no JSON
TextStreams ==
  {Framed(TextBlock(0), d) : d \in {TerminalDelta, Raw(TerminalDelta)}}

\* one tool call, then two message_delta events
FurtherDelta == MessageDelta("outer", Usage(600))

RepeatedDeltaStreams ==
  {Framed(ToolCallEvents(0, "toolA", "id1", ArgsOne) \o <<TerminalDelta>>, FurtherDelta)}

ResponseStreams ==
  SpliceStreams \cup OneCallStreams \cup TwoCallStreams \cup TextStreams
    \cup RepeatedDeltaStreams

\* req.body.tools of the inbound request, the names
OwnTools == {<< >>, <<"bash", "toolA">>}

InitStream ==
  \E events \in ResponseStreams, own \in OwnTools,
     sid \in {S1, Undefined}, before \in {EmptyCache, UsageCacheOf(Usage(700))} :
    /\ StartRouter("core", MkConfig(FullRouter("g"), FALSE, FALSE), PlainFs,
                   NoPlugin, Counted(SampleThreshold - 1), EmptyCache, before,
                   MkReq(ModelPlain, SysPlain, PlainTools, Undefined, UserS1))
    /\ calls = << >>
    /\ served = [sessionId |-> sid, agents |-> << >>, tools |-> own,
                 stage |-> "inbound"]
    /\ payload = events
    /\ source = "flowing"
    /\ mode = "hook"
    /\ pos = 0
    /\ spc = "idle"
    /\ client = "open"
    /\ emitted = << >>
    /\ currentAgent = ""
    /\ currentToolIndex = -1
    /\ currentToolName = ""
    /\ currentToolArgs = << >>
    /\ currentToolId = ""
    /\ toolMessages = << >>
    /\ assistantMessages = << >>
    /\ messages = << >>
    /\ toolCalls = << >>
    /\ aborted = FALSE
    /\ nested = [state |-> "none", events |-> << >>, body |-> [messages |-> << >>, tools |-> << >>],
              error |-> ""]
    /\ clientPos = 0
    /\ reader = "off"
    /\ readerPos = 0

NextStream ==
  \/ InjectAgents
  \/ OnSend
  \/ ToolStart
  \/ ToolArgs
  \/ ToolStopUnparsed
  \/ ToolStopThrows
  \/ ToolStopReturns
  \/ SpliceBegin
  \/ PassThrough
  \/ StreamEnd
  \/ NestedPreHandler
  \/ FetchResolves
  \/ FetchRejects
  \/ NestedSkip
  \/ NestedForward
  \/ NestedBreak
  \/ NestedEnd
  \/ NestedReadFails
  \/ ClientTakes
  \/ ClientCloses
  \/ SourceFails
  \/ ClientRead
  \/ UsageRead
  \/ UsageReadEnds
  \/ UsageReadFails
  \/ RouteNext

SpecStream == InitStream /\ [][NextStream]_vars

\* ------------------------------------------------------------------------
\* Properties of the streamed response
\* ------------------------------------------------------------------------

\* the message_delta events of the payload
Deltas == SelectSeq(payload, LAMBDA e : e.event = "message_delta")

\* the terminal message_delta of the payload carries usage
CarriesUsage ==
  /\ Deltas # << >>
  /\ ~Deltas[Len(Deltas)].raw
  /\ IsDefined(Deltas[Len(Deltas)].usage)

\* router() runs on the next request, which is of the session of the response
RoutesSameSession ==
  /\ pc = "start"
  /\ pc' # "start"
  /\ Truthy(served.sessionId)
  /\ parseSessionId(req) = served.sessionId

\* C12: after a streamed response of a request of session s has been
\* processed whose terminal message_delta carries usage u, the next routing
\* decision for s reads lastUsage = u from the session usage cache, for
\* requests without and with active agents.
C12_UsagePersisted ==
  [][(RoutesSameSession /\ Processed /\ CarriesUsage)
     => lastMessageUsage' = Deltas[Len(Deltas)].usage]_vars

IsBlockEvent(e) ==
  e.event \in {"content_block_start", "content_block_delta", "content_block_stop"}

\* the scripted response of P6 has been spliced: the handler of its tool call
\* returned a result, the nested response was read to its end and the
\* rewritten stream was closed
SpliceCompleted ==
  /\ mode = "rewrite"
  /\ spc = "done"
  /\ payload \in SpliceStreams
  /\ Len(toolCalls) = 1
  /\ toolCalls[1].outcome = "result"
  /\ nested.state = "finished"

StopStep == Delivering /\ ClosesTool(payload[pos + 1]) /\ pos' = pos + 1

\* ... and JSON5.parse or the handler throws
FailedStopStep ==
  /\ StopStep
  /\ toolCalls'[Len(toolCalls')].outcome \in {"parse-error", "handler-error"}

\* C14: when the handler throws or the accumulated argument text cannot be
\* parsed at content_block_stop of the open tool, the exception does not reach
\* the consumer, the event is suppressed and the tool state is reset:
\* currentToolIndex = -1, name, id and accumulated arguments cleared.
C14_FailureResets ==
  [][FailedStopStep
     => /\ spc' = "idle"
        /\ emitted' = emitted
        /\ currentToolIndex' = -1
        /\ currentToolName' = ""
        /\ currentToolId' = ""
        /\ currentToolArgs' = << >>]_vars

\* the client has closed the response while the nested call is in flight
ClosedInFlight == client = "closed" /\ spc \in {"fetching", "reading"}

\* C15: when the client closes the outer response while the nested upstream
\* call or the read of its stream is in flight, the nested call is aborted
\* through the cancellation signal, it does not run on to a response that is
\* then read, and no further nested event is enqueued to the outer stream.
C15_NestedAborted ==
  [][ClosedInFlight
     => /\ emitted' = emitted
        /\ spc = "fetching" => spc' # "reading"
        /\ spc' \notin {"fetching", "reading"} => aborted']_vars

\* C16: a failure of the usage reader on the clone (a read that rejects with
\* an abort, a premature close or another error, a message_delta whose data
\* does not parse) stays inside the reader: onSend has returned the original
\* stream, the promise of read() is never rejected, and the client's stream
\* is the payload, chunk by chunk, whatever state the reader is in.
C16_ReaderIsolated ==
  (Truthy(served.sessionId) /\ served.agents = << >> /\ mode # "hook")
    => /\ mode = "tee"
       /\ reader \in {"reading", "ended", "failed"}
       /\ emitted = [i \in 1..clientPos |-> Chunk(i)]
       /\ (client = "open" /\ source = "flowing" /\ clientPos < Len(payload))
            => ENABLED ClientRead

C16_Witness ==
  /\ mode = "tee"
  /\ reader = "failed"
  /\ source = "other"
  /\ \E i \in 1..readerPos : payload[i].event = "message_delta" /\ payload[i].raw
  /\ clientPos = readerPos
  /\ emitted = [i \in 1..clientPos |-> Chunk(i)]

\* the callback runs on the next event of the payload
CallbackStep == Delivering /\ pos' = pos + 1

\* the event is a content_block_start whose block names a tool of an agent of
\* the request's active-agent list
OwnedStart(data) ==
  /\ data.event = "content_block_start"
  /\ data.name # ""
  /\ \E i \in 1..Len(served.agents) : data.name \in AgentTools[served.agents[i]]

\* the tool call that is open after the first k events of the payload: the
\* position of its content_block_start, 0 when no call is open
OpenCall(k) ==
  LET starts == {j \in 1..k : OwnedStart(payload[j])}
      last == CHOOSE j \in starts : \A m \in starts : m <= j
  IN IF starts = {} THEN 0
     ELSE IF \E m \in (last + 1)..k :
               /\ payload[m].event = "content_block_stop"
               /\ payload[m].index = payload[last].index
          THEN 0
          ELSE last

\* the event matches no transition of the pipeline
NoTransition(data) ==
  LET open == OpenCall(pos)
      atOpen == open > 0 /\ data.index = payload[open].index
  IN /\ ~OwnedStart(data)
     /\ ~(atOpen /\ data.dtype = "input_json_delta")
     /\ ~(atOpen /\ data.event = "content_block_stop")
     /\ ~(data.event = "message_delta" /\ toolMessages # << >>)

\* C19: a content_block_start is suppressed and opens a tool call, recording
\* index, name, id and owning agent, iff its block names a tool of an agent of
\* the active-agent list; an event that matches no transition (the start of a
\* tool no active agent owns, text blocks, deltas and stops at other indexes,
\* message_delta with no tool result collected, message_start, message_stop)
\* is enqueued once, as it came, and the tool state stays as it was.
C19_ToolOwnership ==
  [][CallbackStep
     => LET data == payload[pos + 1]
        IN /\ OwnedStart(data)
                => /\ emitted' = emitted
                   /\ currentToolIndex' = data.index[1]
                   /\ currentToolName' = data.name
                   /\ currentToolId' = data.id
                   /\ data.name \in AgentTools[currentAgent']
                   /\ \E i \in 1..Len(served.agents) : served.agents[i] = currentAgent'
           /\ (data.event = "content_block_start" /\ ~OwnedStart(data))
                => /\ emitted' = Append(emitted, data)
                   /\ UNCHANGED closureVars
           /\ NoTransition(data)
                => /\ emitted' = Append(emitted, data)
                   /\ UNCHANGED <<closureVars, messages, toolCalls, nested>>
                   /\ spc' = "idle"]_vars

C19_Witness ==
  /\ mode = "rewrite"
  /\ spc = "done"
  /\ served.agents = <<"agentA">>
  /\ payload = Framed(ToolCallEvents(0, "toolA", "id1", ArgsOne) \o
                      ToolCallEvents(1, "toolB", "id2", ArgsWhole), TerminalDelta)
  /\ nested.state = "finished"
  /\ SelectSeq(emitted, LAMBDA e : e.origin = "outer") =
       <<MessageStart("outer")>> \o ToolCallEvents(1, "toolB", "id2", ArgsWhole) \o
       <<MessageStop("outer")>>

RECURSIVE ConcatAll(_)
ConcatAll(texts) ==
  IF texts = << >> THEN << >> ELSE Head(texts) \o ConcatAll(Tail(texts))

\* the partial_json fragments of the input_json_delta events at the index of
\* the content_block_stop at position k, from the content_block_start of that
\* tool call on, in arrival order
Fragments(k) ==
  LET stop == payload[k]
      starts == {j \in 1..(k - 1) :
                   OwnedStart(payload[j]) /\ payload[j].index = stop.index}
      start == CHOOSE j \in starts : \A m \in starts : m <= j
  IN ConcatAll([m \in 1..(k - 1 - start) |->
                  IF /\ payload[start + m].index = stop.index
                     /\ payload[start + m].dtype = "input_json_delta"
                  THEN payload[start + m].partial_json
                  ELSE << >>])

\* C20: the argument text parsed, and passed to the handler, at the
\* content_block_stop of an agent tool call is the concatenation in arrival
\* order of the partial_json fragments received at that call's index between
\* its content_block_start and its content_block_stop, with no fragment of an
\* earlier call of the stream, also when that earlier call failed to parse or
\* its handler threw.
C20_ArgumentsOfThisCall ==
  [][StopStep => toolCalls'[Len(toolCalls')].text = Fragments(pos + 1)]_vars

\* the callback runs on a message_delta while tool results are collected
SpliceStep ==
  /\ Delivering
  /\ payload[pos + 1].event = "message_delta"
  /\ toolMessages # << >>
  /\ pos' = pos + 1

\* C21: on a message_delta with at least one tool result collected, two
\* messages are appended to request.messages before the nested call is issued,
\* the assistant message with the collected tool_use blocks and then the user
\* message with the collected tool_result blocks; the body of the nested
\* request carries the messages so updated; the message_delta itself is not
\* emitted, neither by this step nor while the nested call is in flight.
C21_SpliceTrigger ==
  /\ [][SpliceStep =>
          /\ messages' = messages \o
                         << [role |-> "assistant", content |-> assistantMessages],
                            [role |-> "user", content |-> toolMessages] >>
          /\ nested.state # "fetching"
          /\ nested'.state = "fetching"
          /\ nested'.body.messages = messages'
          /\ emitted' = emitted]_vars
  /\ [][(spc # "idle" /\ emitted' # emitted)
          => /\ emitted' = Append(emitted, Head(nested.events))
             /\ Head(nested.events).origin = "nested"]_vars

C21_Witness ==
  /\ mode = "rewrite"
  /\ spc = "done"
  /\ payload = Framed(TextBlock(0) \o ToolCallEvents(1, "toolA", "id1", ArgsWhole),
                      TerminalDelta)
  /\ nested.state = "finished"
  /\ nested.body.messages =
       << [role |-> "assistant",
           content |-> << [type |-> "tool_use", id |-> "id1", name |-> "toolA",
                           input |-> <<"k">>] >>],
          [role |-> "user",
           content |-> << [tool_use_id |-> "id1", type |-> "tool_result",
                           content |-> ToolResult("toolA", <<"k">>)] >>] >>
  /\ \A i \in 1..Len(emitted) : emitted[i] # TerminalDelta

\* the position in the payload of the message_delta that triggered the splice
TriggerAt ==
  CHOOSE k \in 1..pos :
    /\ payload[k].event = "message_delta"
    /\ \A m \in 1..(k - 1) : payload[m].event # "message_delta"

\* the events of the nested response without its framing
NestedContent ==
  SelectSeq(NestedEvents, LAMBDA e : e.event \notin {"message_start", "message_stop"})

\* the nested stream was read to its end or left, and the client is there
NestedReadOver ==
  /\ mode = "rewrite"
  /\ client = "open"
  /\ nested.state \in {"finished", "left"}

\* C22: while the client has not closed the outer response, every event of the
\* nested stream other than message_start and message_stop is enqueued to the
\* outer stream, in nested order and without loss, also when the outer queue
\* is full for a moment; all of them stand where the triggering message_delta
\* stood: after the original events that came before it and before every
\* original event that comes after it.
C22_NestedForwarded ==
  NestedReadOver =>
    /\ SelectSeq(emitted, LAMBDA e : e.origin = "nested") = NestedContent
    /\ \A i, j \in 1..Len(emitted) :
         (i < j /\ emitted[i].origin = "nested" /\ emitted[j].origin = "outer")
           => \E m \in (TriggerAt + 1)..pos : payload[m] = emitted[j]
    /\ \A i, j \in 1..Len(emitted) :
         (i < j /\ emitted[i].origin = "outer" /\ emitted[j].origin = "nested")
           => \E m \in 1..(TriggerAt - 1) : payload[m] = emitted[i]

\* the nested call was answered with a status that is not ok, and the
\* original stream has been read to its end since
RefusedAndOver ==
  /\ mode = "rewrite"
  /\ nested.state = "refused"
  /\ pos = Len(payload)
  /\ spc \in {"idle", "done", "errored"}

\* no event of the nested response is injected, the stream is not errored,
\* and the original events after the trigger are delivered
RefusedQuietly ==
  /\ \A i \in 1..Len(emitted) : emitted[i].origin # "nested"
  /\ spc # "errored"
  /\ \A m \in (TriggerAt + 1)..Len(payload) :
       \E i \in 1..Len(emitted) : emitted[i] = payload[m]

\* C23: when the nested upstream call answers with a status that is not ok,
\* no event of the nested response is injected, no error reaches the client,
\* the events of the original stream that follow are delivered, and the
\* message_delta of the original stream is not lost to the client.
C23_RefusedNestedCall ==
  RefusedAndOver =>
    /\ RefusedQuietly
    /\ \E i \in 1..Len(emitted) : emitted[i] = payload[TriggerAt]

\* an error is raised in the callback outside the try block of the tool
\* handler: by the nested fetch or by a read of the nested stream
ErrorStep == nested.state # "failed" /\ nested'.state = "failed"

\* the error is swallowed: the event is dropped, the abort controller is
\* triggered and the stream goes on
Swallowed == spc' = "idle" /\ aborted' /\ emitted' = emitted

IssuesNested == nested.state # "fetching" /\ nested'.state = "fetching"

\* C25: the collected tool_use and tool_result blocks are consumed by the
\* splice: within one outer response at most one nested upstream call is
\* issued and request.messages grows by at most two messages, also when the
\* original stream delivers a further message_delta after the splice.
C25_SingleSplice ==
  /\ [][IssuesNested => nested.state = "none"]_vars
  /\ [](Len(messages) <= 2)

\* the tool_result blocks answer the tool_use blocks one for one
Paired(assistant, user) ==
  /\ Len(assistant.content) = Len(user.content)
  /\ \A i \in 1..Len(assistant.content) :
       user.content[i].tool_use_id = assistant.content[i].id

\* C27: in every nested request the pipeline issues, the appended assistant
\* message and the appended user message hold the same number of blocks and
\* the i-th tool_result block names the id of the i-th tool_use block, after
\* any sequence of agent tool calls, also when a tool handler threw.
C27_ToolResultPairing ==
  nested.state # "none" =>
    LET body == nested.body.messages
    IN \A k \in 1..(Len(body) \div 2) : Paired(body[2 * k - 1], body[2 * k])

\* the request being answered has no session id
NoSession == ~Truthy(served.sessionId)

\* C28: for the streamed response of a request without session id the hook
\* hands the payload on untouched: no agent interception takes place even
\* when the request has active agents (the events of agent tool calls reach
\* the client as they are), no tee is made and the session usage cache is
\* not written.
C28_SessionGating ==
  /\ [](NoSession =>
          /\ mode \in {"hook", "plain"}
          /\ emitted = [i \in 1..clientPos |-> Chunk(i)]
          /\ toolCalls = << >>
          /\ messages = << >>
          /\ nested.state = "none"
          /\ reader = "off"
          /\ readerPos = 0)
  /\ [][NoSession => sessionUsageCache' = sessionUsageCache]_vars

C28_Witness ==
  /\ NoSession
  /\ served.agents = <<"agentA">>
  /\ mode = "plain"
  /\ payload = Framed(TextBlock(0) \o ToolCallEvents(1, "toolA", "id1", ArgsWhole),
                      TerminalDelta)
  /\ clientPos = Len(payload)
  /\ emitted[5] = serialize(BlockStart("outer", 1, "toolA", "id1"))
  /\ sessionUsageCache = UsageCacheOf(Usage(700))

\* the names of a list of tools are pairwise distinct
Distinct(tools) ==
  \A i, j \in 1..Len(tools) : i # j => tools[i] # tools[j]

\* C30: after the preHandler has put the tools of every agent whose
\* shouldHandle returned true in front of req.body.tools, the names in
\* req.body.tools are pairwise distinct, for every inbound request whose own
\* tools had distinct names, the nested request of a splice included, whose
\* body comes with the agent tools of the outer request and passes the same
\* preHandler.
C30_ToolNamesDistinct ==
  /\ served.stage = "handled" => Distinct(served.tools)
  /\ nested.state \notin {"none", "fetching"} => Distinct(nested.body.tools)

\* C29: once searchProjectBySession has cached a result for a session id (a
\* project name, or not-found, also after a scan that failed), every later
\* call for that id returns the same result without a new scan, whatever
\* changes the projects directory undergoes in between.
C29_StickyBinding ==
  \A i, j \in 1..Len(calls) :
    (i < j /\ calls[i].sessionId = calls[j].sessionId)
      => /\ calls[j].result = calls[i].result
         /\ calls[j].scans = 0

\* not-found is cached for S1, then <S1>.jsonl is created in ProjA, then S1 is
\* looked up again
C29_Witness ==
  \E i, j \in 1..Len(calls) :
    /\ i < j
    /\ calls[i].sessionId = S1
    /\ calls[j].sessionId = S1
    /\ calls[i].dir = {}
    /\ ~calls[i].failed
    /\ calls[i].result = NotFound
    /\ calls[j].dir = {<<ProjA, S1>>}
    /\ calls[j].result = NotFound
    /\ ~fs.scanFails

====
